---------------------------- MODULE Spec2Model ----------------------------
(***************************************************************************)
(* Uncertainty-propagation engine of lab_tools: LinearCombination,         *)
(* AffineScalarFunc and Variable, in the two importable drafts             *)
(*   "test" : src/src/lab_tools/test.py                                    *)
(*   "main" : src/src/1/main.py                                            *)
(* Objects live in two heaps indexed by identity: lcs (LinearCombination   *)
(* objects) and objs (AffineScalarFunc / Variable objects).                *)
(* Finite floats are modelled by integers; the values a standard deviation *)
(* can take are extended floats: records [k, v] with k = "fin" (v the      *)
(* number), "inf" (v the sign), "nan", or "sqrt" (the irrational root of   *)
(* the non-square v).                                                      *)
(***************************************************************************)
EXTENDS Integers, Sequences, FiniteSets, TLC

VARIABLES draft, objs, lcs, last

vars == <<draft, objs, lcs, last>>

(* ------------------------------ bounds --------------------------------- *)
\* Spec: objects, Variables among them, LinearCombination objects
MaxObjs == 3
MaxVars == 2
MaxLcs == 5
\* SpecRead and SpecExpand: objects, LinearCombination objects
MaxReadObjs == 2
MaxReadLcs == 4
\* SpecSum: steps of the running sum
MaxSteps == 3
\* SpecCopy: objects, LinearCombination objects
MaxCopyObjs == 3
MaxCopyLcs == 5
\* SpecDeep: derived values built before the deep copy
MaxDeepSteps == 1
\* SpecErrNum: ErrNum objects, temporaries included
MaxErrNums == 3
\* SpecCorr: rows and columns of the covariance matrix
MaxDim == 2
\* SpecLimits: elements of the limits argument
MaxLimits == 3
\* SpecRound: the largest number rounded, in eighths
MaxEighths == 1000
\* SpecMean: elements of data
MaxData == 3
\* SpecRelative: ErrNum objects
MaxRelNums == 2
\* SpecMalformed: objects, Variables among them, LinearCombination objects
MaxBadObjs == 2
MaxBadVars == 1
MaxBadLcs == 4
\* SpecLoop and SpecRace: LinearCombination objects of the structure expanded
MaxLoopNodes == 4
MaxRaceNodes == 3
\* SpecDump: items of a dict, dicts inside one another
MaxItems == 2
MaxNest == 2
\* SpecAssign: objects, Variables among them, LinearCombination objects
MaxSetObjs == 2
MaxSetVars == 1
MaxSetLcs == 3

Drafts == {"test", "main"}
Values == {2, 3}

(* --------------------------- extended floats --------------------------- *)
Fin(i) == [k |-> "fin", v |-> i]
PosInf == [k |-> "inf", v |-> 1]
NegInf == [k |-> "inf", v |-> -1]
NaN == [k |-> "nan", v |-> 0]
Unset == [k |-> "unset", v |-> 0]

PermittedStdDevs == {Fin(0), Fin(1), PosInf}
AnyStdDevs == PermittedStdDevs \cup {Fin(-1), NegInf, NaN}

Abs(i) == IF i < 0 THEN -i ELSE i
Sign(i) == IF i < 0 THEN -1 ELSE 1

\* np.isfinite / math.isfinite
isfinite(f) == f.k = "fin"

\* std_dev < 0 (every comparison with nan is False)
FLtZero(f) == \/ f.k = "fin" /\ f.v < 0
              \/ f.k = "inf" /\ f.v < 0

\* variable._std_dev == 0
FIsZero(f) == f.k = "fin" /\ f.v = 0

\* derivative * variable._std_dev, derivative a finite float
FMul(c, f) ==
    CASE f.k = "fin" -> Fin(c * f.v)
      [] f.k = "inf" -> IF c = 0 THEN NaN ELSE [k |-> "inf", v |-> Sign(c) * f.v]
      [] OTHER -> NaN

\* abs(...)
FAbs(f) ==
    CASE f.k = "fin" -> Fin(Abs(f.v))
      [] f.k = "inf" -> PosInf
      [] OTHER -> f

\* delta**2
FSq(f) ==
    CASE f.k = "fin" -> Fin(f.v * f.v)
      [] f.k = "inf" -> PosInf
      [] OTHER -> NaN

\* one step of sum(...): acc + delta**2, both non-negative or nan
FAdd(f, g) ==
    CASE f.k = "nan" \/ g.k = "nan" -> NaN
      [] f.k = "inf" \/ g.k = "inf" ->
            IF f.k = "inf" /\ g.k = "inf" /\ f.v # g.v THEN NaN
            ELSE IF f.k = "inf" THEN f ELSE g
      [] OTHER -> Fin(f.v + g.v)

\* float(np.sqrt(s)) / float(math.sqrt(s)) of a non-negative sum
FSqrt(f) ==
    CASE f.k = "fin" ->
            IF \E r \in 0..f.v : r * r = f.v
            THEN Fin(CHOOSE r \in 0..f.v : r * r = f.v)
            ELSE [k |-> "sqrt", v |-> f.v]
      [] OTHER -> f

(* ------------------------- LinearCombination --------------------------- *)
\* A LinearCombination object. rep is what isinstance sees of linear_combo:
\* "list", "dict", or "other". A list is kept in the field list as a
\* sequence of <<factor, identity of the sub-combination>> pairs, a dict in
\* the field dict as a function from Variable identities to coefficients.
LC(rep, list, dict) == [rep |-> rep, list |-> list, dict |-> dict]

EmptyDict == [v \in {} |-> 0]

LCDict(d) == LC("dict", <<>>, d)

LCList(l) == LC("list", l, EmptyDict)

is_expanded(lc) == lc.rep = "dict"

is_not_expanded(lc) == lc.rep = "list"

\* bool(self.linear_combo)
LC_bool(lc) == IF lc.rep = "dict" THEN DOMAIN lc.dict # {} ELSE lc.list # <<>>

\* Mutant of Accumulate: the contributions are added as magnitudes
Accumulate_abs(derivatives, main_factor, d) ==
    [var \in DOMAIN derivatives \cup DOMAIN d |->
        (IF var \in DOMAIN derivatives THEN derivatives[var] ELSE 0)
        + (IF var \in DOMAIN d THEN Abs(main_factor * d[var]) ELSE 0)]

\* for var, factor in main_expr.linear_combo.items():
\*     derivatives[var] += main_factor * factor      (defaultdict(float))
Accumulate(derivatives, main_factor, d) ==
    [var \in DOMAIN derivatives \cup DOMAIN d |->
        (IF var \in DOMAIN derivatives THEN derivatives[var] ELSE 0)
        + (IF var \in DOMAIN d THEN main_factor * d[var] ELSE 0)]

\* Mutant of Scaled: the pushed terms carry main_factor alone, their own
\* factor is lost
Scaled_main_only(main_factor, terms) ==
    [i \in 1..Len(terms) |-> <<main_factor, terms[i][2]>>]

\* for factor, expr in main_expr.linear_combo:
\*     self.linear_combo.append((main_factor * factor, expr))
Scaled(main_factor, terms) ==
    [i \in 1..Len(terms) |-> <<main_factor * terms[i][1], terms[i][2]>>]

\* The while loop of expand(): work is self.linear_combo, popped from its
\* end. Returns the accumulated derivatives, what is left of the list and
\* whether NotImplementedError was raised (draft "test"; draft "main" has
\* no else branch and drops such a term).
RECURSIVE expand_loop(_, _, _, _)
expand_loop(d, heap, work, derivatives) ==
    IF work = <<>>
    THEN [derivatives |-> derivatives, work |-> work, raised |-> FALSE]
    ELSE LET main_factor == work[Len(work)][1]
             main_expr == heap[work[Len(work)][2]]
             rest == SubSeq(work, 1, Len(work) - 1)
         IN  IF is_expanded(main_expr)
             THEN expand_loop(d, heap, rest,
                     Accumulate(derivatives, main_factor, main_expr.dict))
             ELSE IF is_not_expanded(main_expr)
             THEN expand_loop(d, heap,
                     rest \o Scaled(main_factor, main_expr.list), derivatives)
             ELSE IF d = "test"
             THEN [derivatives |-> derivatives, work |-> rest, raised |-> TRUE]
             ELSE expand_loop(d, heap, rest, derivatives)

\* The end of expand() on the non-expanded object l, r being the outcome of
\* its loop: self.linear_combo is left as the loop left it and the result
\* is a new LinearCombination over dict(derivatives).
expand_return(heap, l, r) ==
    IF r.raised
    THEN [heap |-> [heap EXCEPT ![l].list = r.work], ret |-> 0,
          raised |-> TRUE]
    ELSE [heap |-> Append([heap EXCEPT ![l].list = r.work],
                          LCDict(r.derivatives)),
          ret |-> Len(heap) + 1, raised |-> FALSE]

\* LinearCombination.expand() called on object l of the heap. Returns the
\* heap after the call, the identity of the returned object (0 when the
\* call raised) and whether it raised.
\* A linear_combo that is neither a list nor a dict is a tuple of terms:
\* draft "test" returns self for it; in draft "main" the loop of
\* LinearCombinationNonExpanded.expand() runs on it and pop() raises
\* AttributeError, unless the tuple is empty.
expand(d, heap, l) ==
    IF is_not_expanded(heap[l])
    THEN expand_return(heap, l,
                       expand_loop(d, heap, heap[l].list, EmptyDict))
    ELSE IF d = "main" /\ is_expanded(heap[l])
    THEN [heap |-> Append(heap, LCDict(heap[l].dict)),
          ret |-> Len(heap) + 1, raised |-> FALSE]
    ELSE IF d = "main" /\ LC_bool(heap[l])
    THEN [heap |-> heap, ret |-> 0, raised |-> TRUE]
    ELSE IF d = "main"
    THEN [heap |-> Append(heap, LCDict(EmptyDict)),
          ret |-> Len(heap) + 1, raised |-> FALSE]
    ELSE [heap |-> heap, ret |-> l, raised |-> FALSE]

(* ---------------------- AffineScalarFunc / Variable -------------------- *)
\* An object of class AffineScalarFunc or Variable: its slots
\* _nominal_value, _linear_part (identity of a LinearCombination) and, for
\* a Variable, _std_dev. made is not a slot: it records the expression that
\* made the object, <<operator, left operand, right operand>>.
Obj(cls, n, lp, sd, made) ==
    [cls |-> cls, nominal_value |-> n, linear_part |-> lp, std_dev |-> sd,
     made |-> made]

\* AffineScalarFunc(nominal_value, linear_part) with linear_part a list of
\* (factor, LinearCombination) pairs: the list is wrapped in a new
\* LinearCombination. Returns both heaps with the new objects appended.
AffineScalarFunc_init(O, H, nominal_value, linear_part, made) ==
    [heap |-> Append(H, LCList(linear_part)),
     objs |-> Append(O, Obj("AffineScalarFunc", nominal_value, Len(H) + 1,
                            Unset, made))]

\* The re-binding self._linear_part = self._linear_part.expand(), r being
\* the outcome of the expand() call.
derivatives_rebind(O, a, r) ==
    IF r.raised
    THEN [objs |-> O, heap |-> r.heap, ret |-> EmptyDict, raised |-> TRUE]
    ELSE [objs |-> [O EXCEPT ![a].linear_part = r.ret], heap |-> r.heap,
          ret |-> r.heap[r.ret].dict, raised |-> FALSE]

\* AffineScalarFunc.derivatives: expands and re-binds _linear_part when it
\* is not expanded. Returns both heaps after the read and the dict read.
derivatives(d, O, H, a) ==
    IF is_not_expanded(H[O[a].linear_part])
    THEN derivatives_rebind(O, a, expand(d, H, O[a].linear_part))
    ELSE IF d = "main" /\ ~is_expanded(H[O[a].linear_part])
    THEN [objs |-> O, heap |-> H, ret |-> EmptyDict, raised |-> TRUE]
    ELSE [objs |-> O, heap |-> H, ret |-> H[O[a].linear_part].dict,
          raised |-> FALSE]

\* Mutant of component: the absolute value is not taken
component_noabs(sd, derivative) ==
    IF FIsZero(sd) THEN Fin(0) ELSE FMul(derivative, sd)

\* The body of the loop of error_components() for one (variable, derivative)
component(sd, derivative) ==
    IF FIsZero(sd) THEN Fin(0) ELSE FAbs(FMul(derivative, sd))

\* The loop of error_components() over r.ret = self.derivatives
error_components_of(O, r) ==
    [objs |-> r.objs, heap |-> r.heap, raised |-> r.raised,
     ret |-> [variable \in DOMAIN r.ret |->
                 component(O[variable].std_dev, r.ret[variable])]]

\* AffineScalarFunc.error_components()
error_components(d, O, H, a) ==
    error_components_of(O, derivatives(d, O, H, a))

\* sum(delta**2 for delta in error_components().values()), from int 0
RECURSIVE sum_sq(_, _)
sum_sq(ec, S) ==
    IF S = {} THEN Fin(0)
    ELSE LET v == CHOOSE x \in S : TRUE
         IN  FAdd(sum_sq(ec, S \ {v}), FSq(ec[v]))

\* float(np.sqrt(sum(...))) over r.ret = self.error_components()
std_dev_of(r) ==
    [objs |-> r.objs, heap |-> r.heap, raised |-> r.raised,
     ret |-> FSqrt(sum_sq(r.ret, DOMAIN r.ret))]

\* The std_dev property: Variable.std_dev returns the slot,
\* AffineScalarFunc.std_dev computes it from the error components.
std_dev(d, O, H, a) ==
    IF O[a].cls = "Variable"
    THEN [objs |-> O, heap |-> H, raised |-> FALSE, ret |-> O[a].std_dev]
    ELSE std_dev_of(error_components(d, O, H, a))

\* (value - self._nominal_value) / self.std_dev with r.ret = self.std_dev:
\* the quotient num / den, or ValueError when the float division raises
\* ZeroDivisionError.
std_score_of(num, r) ==
    [objs |-> r.objs, heap |-> r.heap, raised |-> r.raised \/ FIsZero(r.ret),
     num |-> num, den |-> r.ret]

\* Mutant of std_score: ZeroDivisionError is not turned into an error
std_score_noraise(d, O, H, a, value) ==
    [std_score_of(value - O[a].nominal_value, std_dev(d, O, H, a))
        EXCEPT !.raised = FALSE]

\* AffineScalarFunc.std_score(value)
std_score(d, O, H, a, value) ==
    std_score_of(value - O[a].nominal_value, std_dev(d, O, H, a))

\* The std_dev setter's test
rejected(sd) == FLtZero(sd) /\ isfinite(sd)

(* ------------------------ arithmetic operators ------------------------- *)
\* The operators build a new AffineScalarFunc over a non-expanded list whose
\* terms hold the operands' _linear_part objects. The result is the last
\* object of objs.
add(O, H, a, b) ==
    AffineScalarFunc_init(O, H, O[a].nominal_value + O[b].nominal_value,
        <<<<1, O[a].linear_part>>, <<1, O[b].linear_part>>>>, <<"add", a, b>>)

neg(O, H, a) ==
    AffineScalarFunc_init(O, H, -O[a].nominal_value,
        <<<<-1, O[a].linear_part>>>>, <<"neg", a, 0>>)

\* a - b is a + (-b); the negated operand is a temporary that nothing but
\* the result's linear part refers to, so it is not kept in objs.
sub(O, H, a, b) ==
    LET n == neg(O, H, b)
        r == add(n.objs, n.heap, a, Len(n.objs))
    IN  [heap |-> r.heap,
         objs |-> Append(O, [r.objs[Len(r.objs)] EXCEPT
                                !.made = <<"sub", a, b>>])]

mul(O, H, a, b) ==
    AffineScalarFunc_init(O, H, O[a].nominal_value * O[b].nominal_value,
        <<<<O[b].nominal_value, O[a].linear_part>>,
          <<O[a].nominal_value, O[b].linear_part>>>>, <<"mul", a, b>>)

(* ------------------------------- copying ------------------------------- *)
\* Mutant of Variable_copy: the copy is the Variable itself
Variable_copy_same(d, O, H, x, made) ==
    [objs |-> O, heap |-> H, ret |-> x, raised |-> FALSE]

\* Variable.__copy__: Variable(self.nominal_value, self.std_dev), a new
\* Variable over a new LinearCombination {new: 1.0}. The constructor of
\* draft "test" assigns std_dev through the setter. ret is the identity of
\* the new Variable, 0 when the constructor raised.
Variable_copy(d, O, H, x, made) ==
    IF d = "test" /\ rejected(O[x].std_dev)
    THEN [objs |-> O, heap |-> H, ret |-> 0, raised |-> TRUE]
    ELSE [objs |-> Append(O, Obj("Variable", O[x].nominal_value, Len(H) + 1,
                                 O[x].std_dev, made)),
          heap |-> Append(H, LCDict((Len(O) + 1) :> 1)),
          ret |-> Len(O) + 1, raised |-> FALSE]

\* The state of one copy.deepcopy() call: both heaps, the memo (ml for
\* LinearCombination objects, mv for Variables, 0 for not copied yet), the
\* identity of the latest copy, the list being rebuilt.
DeepState(O, H) ==
    [objs |-> O, heap |-> H, ml |-> [l \in 1..Len(H) |-> 0],
     mv |-> [v \in 1..Len(O) |-> 0], ret |-> 0, terms |-> <<>>,
     raised |-> FALSE]

\* deepcopy of a dict key: Variable.__deepcopy__ is __copy__, r its outcome
deepcopy_key_done(st, v, r) ==
    IF r.raised THEN [st EXCEPT !.raised = TRUE]
    ELSE [st EXCEPT !.objs = r.objs, !.heap = r.heap, !.mv[v] = r.ret]

deepcopy_key(d, st, v) ==
    IF st.raised \/ st.mv[v] # 0 THEN st
    ELSE deepcopy_key_done(st, v,
            Variable_copy(d, st.objs, st.heap, v, <<"key", v, 0>>))

\* deepcopy of the keys of a dict, each Variable copied once
RECURSIVE deepcopy_keys(_, _, _)
deepcopy_keys(d, st, S) ==
    IF S = {} THEN st
    ELSE LET v == CHOOSE w \in S : \A u \in S : w <= u
         IN  deepcopy_keys(d, deepcopy_key(d, st, v), S \ {v})

\* The copy of an expanded combination l, its keys copied in st
deepcopy_dict(st, l) ==
    IF st.raised THEN st
    ELSE [st EXCEPT
            !.heap = Append(st.heap,
                LCDict([k \in {st.mv[v] : v \in DOMAIN st.heap[l].dict} |->
                    st.heap[l].dict[CHOOSE v \in DOMAIN st.heap[l].dict :
                                        st.mv[v] = k]])),
            !.ml[l] = Len(st.heap) + 1,
            !.ret = Len(st.heap) + 1]

\* The copy of a non-expanded combination l, its terms copied in st.terms
deepcopy_list(st, l) ==
    IF st.raised THEN st
    ELSE [st EXCEPT
            !.heap = Append(st.heap, LC(st.heap[l].rep, st.terms, EmptyDict)),
            !.ml[l] = Len(st.heap) + 1,
            !.ret = Len(st.heap) + 1]

\* copy.deepcopy of a LinearCombination (through __getstate__ and
\* __setstate__): the memo keeps shared sub-combinations shared in the copy
RECURSIVE deepcopy_lc(_, _, _)
RECURSIVE deepcopy_terms(_, _, _, _, _)
deepcopy_term_done(d, st, terms, i, acc) ==
    deepcopy_terms(d, st, terms, i + 1, Append(acc, <<terms[i][1], st.ret>>))

deepcopy_terms(d, st, terms, i, acc) ==
    IF i > Len(terms) \/ st.raised THEN [st EXCEPT !.terms = acc]
    ELSE deepcopy_term_done(d, deepcopy_lc(d, st, terms[i][2]), terms, i, acc)

deepcopy_lc(d, st, l) ==
    IF st.raised THEN st
    ELSE IF st.ml[l] # 0 THEN [st EXCEPT !.ret = st.ml[l]]
    ELSE IF is_expanded(st.heap[l])
    THEN deepcopy_dict(deepcopy_keys(d, st, DOMAIN st.heap[l].dict), l)
    ELSE deepcopy_list(deepcopy_terms(d, st, st.heap[l].list, 1, <<>>), l)

\* AffineScalarFunc(self._nominal_value, <the copied linear part>): the
\* argument is a LinearCombination and is stored as it is
deepcopy_return(st, a) ==
    IF st.raised
    THEN [objs |-> st.objs, heap |-> st.heap, ret |-> 0, raised |-> TRUE]
    ELSE [objs |-> Append(st.objs,
                     Obj("AffineScalarFunc", st.objs[a].nominal_value, st.ret,
                         Unset, <<"deepcopy", a, 0>>)),
          heap |-> st.heap, ret |-> Len(st.objs) + 1, raised |-> FALSE]

\* Mutant of AffineScalarFunc_deepcopy: the linear part is aliased
AffineScalarFunc_deepcopy_alias(d, O, H, a) ==
    deepcopy_return([DeepState(O, H) EXCEPT !.ret = O[a].linear_part], a)

\* AffineScalarFunc.__deepcopy__ (Variable.__deepcopy__ is __copy__)
AffineScalarFunc_deepcopy(d, O, H, a) ==
    IF O[a].cls = "Variable"
    THEN Variable_copy(d, O, H, a, <<"copy", a, 0>>)
    ELSE deepcopy_return(
            deepcopy_lc(d, DeepState(O, H), O[a].linear_part), a)

(* ------------------------------- ErrNum -------------------------------- *)
\* The two ErrNum classes: src/src/1/ErrNum.py and src/src/1/ErrNum2.py.
\* In the specification of ErrNum, draft is the class in use and objs the
\* heap of ErrNum objects. An uncertainty is kept as the float FSqrt gives
\* for its square.
ErrNums == {"ErrNum", "ErrNum2"}

\* An ErrNum object: value, uncertainty and, for ErrNum2, the Counter
\* _deps. mult is not an attribute: <<p, n>> records that the object was
\* made as n times the object p (<<0, 0>> otherwise).
ErrNum_obj(v, u, deps, mult) ==
    [cls |-> "ErrNum", v |-> v, u |-> u, deps |-> deps, mult |-> mult]

\* A Python operand: an int or float v, a str of characters s, a list, or
\* the ErrNum object of identity v
Operand(t, v, str) == [t |-> t, v |-> v, s |-> str]

Digits == <<"0", "1", "2", "3", "4", "5", "6", "7", "8", "9">>

IsDigit(c) == \E i \in 1..Len(Digits) : Digits[i] = c

DigitValue(c) == (CHOOSE i \in 1..Len(Digits) : Digits[i] = c) - 1

\* The number a str of decimal digits denotes
RECURSIVE ParseDigits(_)
ParseDigits(str) ==
    IF str = <<>> THEN 0
    ELSE 10 * ParseDigits(SubSeq(str, 1, Len(str) - 1))
            + DigitValue(str[Len(str)])

\* float(other): a number is taken as it is, a str is parsed (ValueError
\* when it is not a number), a list is a TypeError
float_of(other) ==
    CASE other.t \in {"int", "float"} -> [v |-> other.v, err |-> ""]
      [] other.t = "str" ->
            IF other.s # <<>> /\ \A i \in 1..Len(other.s) : IsDigit(other.s[i])
            THEN [v |-> ParseDigits(other.s), err |-> ""]
            ELSE [v |-> 0, err |-> "ValueError"]
      [] OTHER -> [v |-> 0, err |-> "TypeError"]

\* The square of an uncertainty
USq(u) == IF u.k = "sqrt" THEN u.v ELSE u.v * u.v

\* The uncertainty whose square is sq
URoot(sq) == FSqrt(Fin(sq))

\* ErrNum(value, 0.0) made for a plain number: a temporary appended to W
ErrNum_temp(W, value) ==
    [objs |-> Append(W, ErrNum_obj(value, Fin(0), (Len(W) + 1) :> 1,
                                   <<0, 0>>)),
     id |-> Len(W) + 1, err |-> ""]

\* ErrNum._to_ErrNum(other) of ErrNum2.py: float(other) of anything that
\* is not an ErrNum
to_ErrNum_float(W, f) ==
    IF f.err # "" THEN [objs |-> W, id |-> 0, err |-> f.err]
    ELSE ErrNum_temp(W, f.v)

\* ErrNum._to_ErrNum(other): ErrNum.py accepts an ErrNum, a float or an int
\* and raises TypeError otherwise
to_ErrNum(e, W, other) ==
    IF other.t = "ErrNum" THEN [objs |-> W, id |-> other.v, err |-> ""]
    ELSE IF e = "ErrNum2" THEN to_ErrNum_float(W, float_of(other))
    ELSE IF other.t \in {"float", "int"} THEN ErrNum_temp(W, other.v)
    ELSE [objs |-> W, id |-> 0, err |-> "TypeError"]

\* ErrNum._calc_unc(other, expr) of ErrNum.py for expr "x+y" and "x*y":
\* dfx and dfy are the partial derivatives at (self.v, other.v)
calc_unc_of(W, a, b, dfx, dfy) ==
    IF a = b
    THEN URoot((Abs(dfx) + Abs(dfy)) * (Abs(dfx) + Abs(dfy)) * USq(W[a].u))
    ELSE URoot(dfx * dfx * USq(W[a].u) + dfy * dfy * USq(W[b].u))

calc_unc(W, a, b, expr) ==
    IF expr = "x+y" THEN calc_unc_of(W, a, b, 1, 1)
    ELSE calc_unc_of(W, a, b, W[b].v, W[a].v)

\* Counter + Counter
CounterAdd(c1, c2) ==
    [k \in DOMAIN c1 \cup DOMAIN c2 |->
        (IF k \in DOMAIN c1 THEN c1[k] ELSE 0)
        + (IF k \in DOMAIN c2 THEN c2[k] ELSE 0)]

\* ErrNum._propagate_unc of ErrNum2.py: the double loop keeps the terms
\* with obj_i is obj_j only. derivs is the dict of derivatives
RECURSIVE propagate_total(_, _, _, _)
propagate_total(W, deps, derivs, S) ==
    IF S = {} THEN 0
    ELSE LET i == CHOOSE k \in S : TRUE
         IN  deps[i] * deps[i] * derivs[i] * derivs[i] * USq(W[i].u)
                + propagate_total(W, deps, derivs, S \ {i})

propagate_unc(W, deps, derivs) ==
    URoot(propagate_total(W, deps, derivs, DOMAIN deps))

\* The derivatives of ErrNum2.py: none for + and - (every one is 1.0), the
\* dict built by __mul__ (the entries of other._deps are written last)
derivs_of(W, op, a, b) ==
    [k \in DOMAIN W[a].deps \cup DOMAIN W[b].deps |->
        IF op # "mul" THEN 1
        ELSE IF k \in DOMAIN W[b].deps THEN W[a].v ELSE W[b].v]

\* What + and * make of n times p: (k1 + k2) times p, k * n times p
mult_of(W, op, a, other, b) ==
    CASE op = "add" /\ W[a].mult[1] # 0 /\ W[a].mult[1] = W[b].mult[1] ->
            <<W[a].mult[1], W[a].mult[2] + W[b].mult[2]>>
      [] op = "mul" /\ W[a].mult[1] # 0 /\ other.t = "int" /\ other.v > 0 ->
            <<W[a].mult[1], W[a].mult[2] * other.v>>
      [] OTHER -> <<0, 0>>

value_of(W, op, a, b) ==
    CASE op = "add" -> W[a].v + W[b].v
      [] op = "sub" -> W[a].v - W[b].v
      [] OTHER -> W[a].v * W[b].v

\* __add__, __sub__, __mul__ of ErrNum2.py once other is an ErrNum: r is
\* the outcome of _to_ErrNum. The result is appended to the heap.
ErrNum2_result(O, op, a, other, r) ==
    IF r.err # "" THEN [objs |-> O, id |-> 0, err |-> r.err]
    ELSE [objs |-> Append(r.objs,
                ErrNum_obj(value_of(r.objs, op, a, r.id),
                    propagate_unc(r.objs,
                        CounterAdd(r.objs[a].deps, r.objs[r.id].deps),
                        derivs_of(r.objs, op, a, r.id)),
                    CounterAdd(r.objs[a].deps, r.objs[r.id].deps),
                    mult_of(r.objs, op, a, other, r.id))),
          id |-> Len(r.objs) + 1, err |-> ""]

\* __add__ and __mul__ of ErrNum.py once other is an ErrNum: r is the
\* outcome of _to_ErrNum. A temporary made for a plain number is not kept.
ErrNum_result(O, op, a, other, r) ==
    IF r.err # "" THEN [objs |-> O, id |-> 0, err |-> r.err]
    ELSE [objs |-> Append(O,
                ErrNum_obj(value_of(r.objs, IF op = "mul" THEN "mul" ELSE "add",
                                    a, r.id),
                    calc_unc(r.objs, a, r.id,
                             IF op = "mul" THEN "x*y" ELSE "x+y"),
                    EmptyDict,
                    mult_of(r.objs, op, a, other, r.id))),
          id |-> Len(O) + 1, err |-> ""]

\* -other: a new ErrNum(-value, uncertainty) for an ErrNum, the negated
\* number for a number, TypeError for a str or a list
negated(W, other) ==
    CASE other.t = "ErrNum" ->
            [objs |-> Append(W, ErrNum_obj(-W[other.v].v, W[other.v].u,
                                           EmptyDict, <<0, 0>>)),
             other |-> Operand("ErrNum", Len(W) + 1, <<>>), err |-> ""]
      [] other.t \in {"int", "float"} ->
            [objs |-> W, other |-> Operand(other.t, -other.v, <<>>),
             err |-> ""]
      [] OTHER -> [objs |-> W, other |-> other, err |-> "TypeError"]

\* ErrNum.__sub__ of ErrNum.py: self.__add__(-other), n the outcome of
\* -other
ErrNum_sub(O, a, other, n) ==
    IF n.err # "" THEN [objs |-> O, id |-> 0, err |-> n.err]
    ELSE ErrNum_result(O, "sub", a, other,
                       to_ErrNum("ErrNum", n.objs, n.other))

\* ErrNum.__rsub__ of ErrNum.py, which Python calls for other - self when
\* other is a plain number: -self.__add__(other), r the outcome of
\* self.__add__(other). The sum is not kept.
ErrNum_rsub(O, r) ==
    IF r.err # "" THEN [objs |-> O, id |-> 0, err |-> r.err]
    ELSE [objs |-> Append(O, ErrNum_obj(-r.objs[r.id].v, r.objs[r.id].u,
                                        EmptyDict, <<0, 0>>)),
          id |-> Len(O) + 1, err |-> ""]

\* self <op> other for op "add", "sub", "mul" in class e; n * self is
\* self * n (__rmul__ = __mul__)
ErrNum_op(e, O, op, a, other) ==
    IF e = "ErrNum2"
    THEN ErrNum2_result(O, op, a, other, to_ErrNum(e, O, other))
    ELSE IF op = "sub" THEN ErrNum_sub(O, a, other, negated(O, other))
    ELSE ErrNum_result(O, op, a, other, to_ErrNum(e, O, other))

(* -------------------------- correlated values -------------------------- *)
\* correlated_values and correlated_values_norm of src/src/core.py. A
\* matrix is a sequence of rows. The numbers that are not integers are
\* kept exactly: a fraction is [n, d], a coefficient [n, r2] is n (r2
\* FALSE) or n / sqrt(2) (r2 TRUE), the std_dev of a latent Variable is
\* the root of a fraction.
Frac(n, d) == [n |-> n, d |-> d]

Coef(n, r2) == [n |-> n, r2 |-> r2]

Min(a, b) == IF a < b THEN a ELSE b

Rows(M) == Len(M)

Cols(M) == Len(M[1])

\* np.diag of a two-dimensional array
np_diag(M) == [i \in 1..Min(Rows(M), Cols(M)) |-> M[i][i]]

\* np.sqrt of the variances, which are squares
np_sqrt(v) == [i \in 1..Len(v) |-> CHOOSE r \in 0..v[i] : r * r = v[i]]

\* norm_vector[norm_vector == 0] = 1
norm_of(std_devs) ==
    [i \in 1..Len(std_devs) |-> IF std_devs[i] = 0 THEN 1 ELSE std_devs[i]]

\* Two lengths that numpy broadcasts together
Broadcast(a, b) == a = b \/ a = 1 \/ b = 1

\* element i of a vector broadcast to a longer axis
At(v, i) == IF Len(v) = 1 THEN v[1] ELSE v[i]

\* covariance_mat / norm_vector / norm_vector[:, np.newaxis]
normalised(M, nv) ==
    [i \in 1..Rows(M) |->
        [j \in 1..Cols(M) |-> Frac(M[i][j], At(nv, j) * At(nv, i))]]

\* list(zip(a, b))
zip(a, b) == [i \in 1..Min(Len(a), Len(b)) |-> <<a[i], b[i]>>]

\* The correlated pair of a correlation matrix with at most one: the
\* lower-triangle position of its non-zero off-diagonal entry, <<0, 0>>
\* when there is none
PairOf(C) ==
    IF \E q \in 1..Rows(C), p \in 1..Rows(C) : p < q /\ C[q][p].n # 0
    THEN CHOOSE pq \in (1..Rows(C)) \X (1..Rows(C)) :
            pq[1] < pq[2] /\ C[pq[2]][pq[1]].n # 0
    ELSE <<0, 0>>

\* np.linalg.eigh of a symmetric correlation matrix with at most one
\* correlated pair (p, q), both of unit variance: the eigenvalues 1 - rho
\* and 1 + rho with the eigenvectors (e_p - e_q) / sqrt(2) and
\* (e_p + e_q) / sqrt(2), and every other diagonal entry with its unit
\* vector. The eigenvectors are the columns of the transform. numpy
\* orders the eigenvalues ascending; the order kept here is that of the
\* rows, which only names the latent Variables differently.
eigh_variances(C, pq) ==
    [k \in 1..Rows(C) |->
        IF k = pq[1] THEN Frac(C[pq[2]][pq[1]].d - C[pq[2]][pq[1]].n,
                               C[pq[2]][pq[1]].d)
        ELSE IF k = pq[2] THEN Frac(C[pq[2]][pq[1]].d + C[pq[2]][pq[1]].n,
                                    C[pq[2]][pq[1]].d)
        ELSE C[k][k]]

eigh_transform(C, pq) ==
    [i \in 1..Rows(C) |->
        [k \in 1..Rows(C) |->
            IF i \in {pq[1], pq[2]} /\ k \in {pq[1], pq[2]}
            THEN Coef(IF i = pq[2] /\ k = pq[1] THEN -1 ELSE 1, TRUE)
            ELSE Coef(IF i = k THEN 1 ELSE 0, FALSE)]]

\* variances[variances < 0] = 0.0
clamped(variances) ==
    [k \in 1..Len(variances) |->
        IF variances[k].n * variances[k].d < 0 THEN Frac(0, 1)
        ELSE variances[k]]

\* Mutant of scaled_transform: each column is scaled, not each row
scaled_transform_columns(transform, std_devs) ==
    [i \in 1..Len(transform) |->
        [k \in 1..Len(transform[i]) |->
            Coef(transform[i][k].n * At(std_devs, k), transform[i][k].r2)]]

\* transform *= std_devs[:, np.newaxis]
scaled_transform(transform, std_devs) ==
    [i \in 1..Len(transform) |->
        [k \in 1..Len(transform[i]) |->
            Coef(transform[i][k].n * At(std_devs, i), transform[i][k].r2)]]

\* The results of correlated_values_norm: the std_dev squared of each
\* latent Variable, zip(variances, tags) being as long as tags, and for
\* each (coords, value) of zip(transform, nominal_values) the value and
\* the coordinates dict(zip(variables, coords)) keeps
values_funcs(pairs, variances, transform) ==
    [err |-> "",
     variables |-> SubSeq(variances, 1, Min(Len(variances), Len(pairs))),
     values |-> [i \in 1..Min(Len(transform), Len(pairs)) |->
                    [value |-> pairs[i][1],
                     coords |-> SubSeq(transform[i], 1,
                                    Min(Len(variances), Len(pairs)))]]]

Failed(err) == [err |-> err, variables |-> <<>>, values |-> <<>>]

\* The columns of np.transpose(values_with_std_dev)
Column(pairs, c) == [i \in 1..Len(pairs) |-> pairs[i][c]]

\* correlated_values_norm(values_with_std_dev, correlation_mat): the
\* unpacking of np.transpose fails on an empty list, eigh on a matrix that
\* is not square, the in-place product on lengths that do not broadcast
correlated_values_norm(pairs, C) ==
    IF pairs = <<>> THEN Failed("ValueError")
    ELSE IF Rows(C) # Cols(C) THEN Failed("LinAlgError")
    ELSE IF ~(Len(pairs) = Rows(C) \/ Len(pairs) = 1)
    THEN Failed("ValueError")
    ELSE values_funcs(pairs, clamped(eigh_variances(C, PairOf(C))),
            scaled_transform(eigh_transform(C, PairOf(C)), Column(pairs, 2)))

\* correlated_values(nom_values, covariance_mat), sd being std_devs: the
\* two divisions fail on shapes that do not broadcast
correlated_values_of(nom_values, M, sd) ==
    IF ~Broadcast(Cols(M), Len(sd)) \/ ~Broadcast(Rows(M), Len(sd))
    THEN Failed("ValueError")
    ELSE correlated_values_norm(zip(nom_values, sd),
                                normalised(M, norm_of(sd)))

correlated_values(nom_values, covariance_mat) ==
    correlated_values_of(nom_values, covariance_mat,
                         np_sqrt(np_diag(covariance_mat)))

(* ------------------------------ CurveFit -------------------------------- *)
\* src/src/curve_fit.py. draft is "curve_fit", objs holds the one CurveFit
\* object, lcs the arrays self.x and self.y (sequences of floats), last the
\* latest call. An attribute or a returned value is [is, v]: None, an
\* ndarray, a float, the object itself, or an attribute not bound yet.
\* fun is one of two model functions, named by Models. The field made of
\* the object is a ghost: what became of the latest fit().
NoneValue == [is |-> "None", v |-> <<>>]

Unbound == [is |-> "unbound", v |-> <<>>]

ndarray(v) == [is |-> "ndarray", v |-> v]

float(f) == [is |-> "float", v |-> <<f>>]

Self == [is |-> "CurveFit", v |-> <<1>>]

\* def constant(x, a): return a;  def linear(x, a, b): return a * x + b
Models == {"constant", "linear"}

\* self.fun.__code__.co_argcount - 1
n_params(fun) == IF fun = "constant" THEN 1 ELSE 2

\* self.fun(x, *params) for one x
fun_at(fun, x, params) ==
    IF fun = "constant" THEN params[1] ELSE params[1] * x + params[2]

\* CurveFit(fun, x, y): the attributes that fit() and the accessors use
CurveFit_init(fun) ==
    [fun |-> fun, fitted |-> FALSE, _params |-> NoneValue,
     _covariance |-> NoneValue, _stderr |-> Unbound, _r2 |-> NoneValue,
     made |-> ""]

\* np.full(n, np.nan) and np.full((n, n), np.nan)
full(n) == [i \in 1..n |-> NaN]

full2(n) == [i \in 1..n |-> full(n)]

RECURSIVE np_sum(_, _)
np_sum(v, i) == IF i = 0 THEN 0 ELSE v[i] + np_sum(v, i - 1)

\* 1 - (ss_res / ss_tot if ss_tot != 0 else 0), with ss_tot * N and
\* ss_res * N in place of ss_tot and ss_res (N the number of points)
r2_of(y, y_fit) ==
    LET N == Len(y)
        res == [i \in 1..N |-> (y[i] - y_fit[i]) * (y[i] - y_fit[i])]
        sq == [i \in 1..N |-> y[i] * y[i]]
        tot == N * np_sum(sq, N) - np_sum(y, N) * np_sum(y, N)
    IN IF tot # 0 THEN Frac(tot - N * np_sum(res, N), tot) ELSE Frac(1, 1)

\* What scipy.optimize.curve_fit does with the data: it raises ValueError
\* when x or y holds a nan; otherwise the solver converges, or fails with
\* RuntimeError, or OptimizeWarning is raised
Outcomes(data) ==
    IF \E i \in 1..Len(data.x) : ~isfinite(data.x[i]) \/ ~isfinite(data.y[i])
    THEN {"ValueError"}
    ELSE {"converged", "RuntimeError", "OptimizeWarning"}

\* lines 111-117 of fit(), after curve_fit has returned popt and pcov
fit_converged(cf, data, popt, pcov) ==
    LET N == Len(data.x)
        y == [i \in 1..N |-> data.y[i].v]
        y_fit == [i \in 1..N |-> fun_at(cf.fun, data.x[i].v, popt)]
    IN [cf EXCEPT !.fitted = TRUE,
                  !._params = ndarray([i \in 1..Len(popt) |-> Fin(popt[i])]),
                  !._covariance = ndarray(pcov),
                  !._stderr = ndarray([i \in 1..Len(pcov) |->
                                          FSqrt(pcov[i][i])]),
                  !._r2 = float(r2_of(y, y_fit)),
                  !.made = "converged"]

\* lines 118-125 of fit(): the handler of RuntimeError and OptimizeWarning
fit_except(cf, e) ==
    [cf EXCEPT !.fitted = FALSE,
               !._params = ndarray(full(n_params(cf.fun))),
               !._covariance = ndarray(full2(n_params(cf.fun))),
               !._stderr = ndarray(full(n_params(cf.fun))),
               !._r2 = float(NaN),
               !.made = e]

\* fit(): the object after the call, what is returned, what is raised
fit(cf, data, outcome, popt, pcov) ==
    CASE outcome = "converged" ->
            [obj |-> fit_converged(cf, data, popt, pcov), ret |-> Self,
             err |-> ""]
      [] outcome \in {"RuntimeError", "OptimizeWarning"} ->
            [obj |-> fit_except(cf, outcome), ret |-> Self, err |-> ""]
      [] OTHER ->
            [obj |-> [cf EXCEPT !.made = outcome], ret |-> NoneValue,
             err |-> outcome]

\* Reading an attribute: one not bound yet raises AttributeError
getattr(value) ==
    IF value.is = "unbound" THEN [ret |-> NoneValue, err |-> "AttributeError"]
    ELSE [ret |-> value, err |-> ""]

NotFitted == [ret |-> NoneValue, err |-> "NotFittedError"]

\* if not self.fitted or self.<name> is None: raise NotFittedError()
not_fitted(cf, names) ==
    \/ ~cf.fitted
    \/ \E name \in names : cf[name].is = "None"

\* The properties params, stderr, r2 and covariance
property(cf, name) ==
    IF ~cf.fitted THEN NotFitted
    ELSE IF getattr(cf[name]).err # "" THEN getattr(cf[name])
    ELSE IF cf[name].is = "None" THEN NotFitted
    ELSE getattr(cf[name])

\* predict_x(y): one root of fsolve for each element of y
predict_x(cf, y) ==
    IF not_fitted(cf, {"_params"}) THEN NotFitted
    ELSE [ret |-> ndarray([i \in 1..Len(y) |-> [k |-> "fsolve", v |-> y[i]]]),
          err |-> ""]

\* predict_y(x)
predict_y(cf, x) ==
    IF not_fitted(cf, {"_params"}) THEN NotFitted
    ELSE [ret |-> ndarray([i \in 1..Len(x) |->
                     IF \A p \in 1..Len(cf._params.v) :
                            isfinite(cf._params.v[p])
                     THEN Fin(fun_at(cf.fun, x[i],
                                     [p \in 1..Len(cf._params.v) |->
                                         cf._params.v[p].v]))
                     ELSE NaN]),
          err |-> ""]

\* list(cf): __iter__ run to its end
iterate(cf) ==
    IF ~cf.fitted THEN NotFitted
    ELSE IF cf._params.is = "None" THEN NotFitted
    ELSE IF getattr(cf._stderr).err # "" THEN getattr(cf._stderr)
    ELSE IF cf._stderr.is = "None" \/ cf._r2.is = "None" THEN NotFitted
    ELSE [ret |-> ndarray(cf._params.v \o cf._stderr.v \o cf._r2.v),
          err |-> ""]

(* -------------------------- LinearRegression ---------------------------- *)
\* src/src/lab_tools/linear_regression.py and validate.py. An array-like
\* argument is [dtype, rows]: the dtype np.asarray gives it ("number" or
\* "str") and its rows; a one-dimensional argument has one row and ndim 1,
\* a nested one has ndim 2. None is the array-like without rows.
ArrayLike(dtype, ndim, rows) == [dtype |-> dtype, ndim |-> ndim, rows |-> rows]

None == ArrayLike("None", 0, <<>>)

RECURSIVE size_from(_, _)
size_from(rows, i) ==
    IF i > Len(rows) THEN 0 ELSE Len(rows[i]) + size_from(rows, i + 1)

\* arr.size
size(arr) == size_from(arr.rows, 1)

\* len(arr)
len(arr) == IF arr.ndim = 1 THEN Len(arr.rows[1]) ELSE Len(arr.rows)

\* Validate.limits_type(limits)
limits_type(limits) ==
    IF limits.dtype # "number" \/ size(limits) # 2 THEN "ValueError" ELSE ""

\* Validate.is_1d_array(arr)
is_1d_array(arr) == IF arr.ndim # 1 THEN "ValueError" ELSE ""

\* Validate.arrays_same_length(arr1, arr2)
arrays_same_length(arr1, arr2) ==
    IF len(arr1) # len(arr2) THEN "ValueError" ELSE ""

\* tuple(np.asarray(limits)): the elements of a one-dimensional array, the
\* rows of a nested one
tuple(arr) == IF arr.ndim = 1 THEN arr.rows[1] ELSE arr.rows

\* min and max of a one-dimensional array (x.min() of an empty array raises
\* ValueError)
RECURSIVE extreme(_, _, _)
extreme(v, i, max) ==
    IF i = 1 THEN v[1]
    ELSE LET e == extreme(v, i - 1, max)
         IN IF (max /\ v[i] > e) \/ (~max /\ v[i] < e) THEN v[i] ELSE e

\* LinearRegression.__init__ after the arrays are validated
LinearRegression_limits(x, y, limits) ==
    IF limits # None
    THEN IF limits_type(limits) # "" THEN [err |-> limits_type(limits)]
         ELSE [err |-> "", limits |-> tuple(limits)]
    ELSE IF len(x) = 0 THEN [err |-> "ValueError"]
    ELSE [err |-> "",
          limits |-> <<extreme(x.rows[1], len(x), FALSE),
                       extreme(x.rows[1], len(x), TRUE)>>]

\* LinearRegression(x, y, limits=limits): the error raised, and the object
\* when there is none
LinearRegression_init(x, y, limits) ==
    IF x.dtype # "number" \/ y.dtype # "number" THEN [err |-> "ValueError"]
    ELSE IF is_1d_array(x) # "" THEN [err |-> is_1d_array(x)]
    ELSE IF is_1d_array(y) # "" THEN [err |-> is_1d_array(y)]
    ELSE IF arrays_same_length(x, y) # ""
         THEN [err |-> arrays_same_length(x, y)]
    ELSE LET r == LinearRegression_limits(x, y, limits)
         IN IF r.err # "" THEN r
            ELSE [err |-> "",
                  obj |-> [x |-> x, y |-> y, fitted |-> FALSE,
                           limits |-> r.limits, slope |-> 0, intercept |-> 0,
                           rvalue |-> 0, stderr |-> 0,
                           intercept_stderr |-> 0]]

(* ------------------------------ round_to_2 ------------------------------ *)
\* src/lab_tools/rounding.py. A number is kept exactly, in thousandths: the
\* integer 1000 * x. The numbers of the model are multiples of 1/8, which a
\* float holds exactly, so that a tie of round() is a tie of the float.
\* An argument is [t, v]: t is "number", "list", "str" or "None" and v the
\* numbers (one for a number).
Arg(t, v) == [t |-> t, v |-> v]

RECURSIVE Pow10(_)
Pow10(n) == IF n = 0 THEN 1 ELSE 10 * Pow10(n - 1)

\* np.floor(np.log10(np.abs(x))) of a nonzero x of at least 1/1000
floor_log10(x) ==
    CHOOSE e \in -3..6 : Pow10(e + 3) <= Abs(x) /\ Abs(x) < Pow10(e + 4)

\* round_index of one number, without the division by 10: the index of the
\* first significant digit
round_index_first(x) ==
    -floor_log10(x)

\* round_index of one number: -floor(log10(abs(x / 10)))
round_index(x) ==
    -(floor_log10(x) - 1)

\* round(x, ndigits): to the nearest multiple of 10 ** -ndigits, a tie to
\* the even one
round(x, ndigits) ==
    IF ndigits >= 3 THEN x
    ELSE LET unit == Pow10(3 - ndigits)
             q == Abs(x) \div unit
             rem == Abs(x) % unit
             up == \/ 2 * rem > unit
                   \/ 2 * rem = unit /\ q % 2 = 1
         IN Sign(x) * unit * (IF up THEN q + 1 ELSE q)

\* round_non_zero_elements(x, round_indices), x a list and round_indices an
\* int
round_list(x, round_indices) ==
    [i \in 1..Len(x) |-> round(x[i], round_indices)]

\* [i for i, value in enumerate(x) if value != 0]
non_zero_indices(x) == {i \in 1..Len(x) : x[i] # 0}

\* lines 23-72: the error raised by the checks of the arguments, if any
round_to_2_checks(x, u_x) ==
    IF x.t \notin {"number", "list"} THEN "TypeError"
    ELSE IF u_x.t = "None" THEN ""
    ELSE IF u_x.t \notin {"number", "list"} THEN "TypeError"
    ELSE IF u_x.t = "list" /\ x.t = "number" THEN "ValueError"
    ELSE IF \E i \in 1..Len(u_x.v) : u_x.v[i] < 0 THEN "ValueError"
    ELSE IF x.t = "list" /\ u_x.t = "list" /\ Len(x.v) # Len(u_x.v)
         THEN "ValueError"
    ELSE ""

\* lines 119-138: no u_x. The elements of a list that are not zero are
\* rounded, each at its own index, and put back
round_to_2_alone(x) ==
    IF x.t = "list"
    THEN Arg("list", [i \in 1..Len(x.v) |->
                         IF i \in non_zero_indices(x.v)
                         THEN round(x.v[i], round_index(x.v[i]))
                         ELSE x.v[i]])
    ELSE Arg("number", <<round(x.v[1], round_index(x.v[1]))>>)

\* lines 139-153: with u_x
round_to_2_with(x, u_x) ==
    IF x.t = "list" /\ u_x.t = "list"
    THEN Arg("list", [i \in 1..Len(x.v) |->
                         IF x.v[i] = 0 THEN x.v[i]
                         ELSE IF u_x.v[i] = 0
                              THEN round(x.v[i], round_index(x.v[i]))
                              ELSE round(x.v[i], round_index(u_x.v[i]))])
    ELSE Arg(x.t, round_list(x.v, round_index(u_x.v[1])))

\* round_to_2(x, u_x): what is returned (the list x itself, changed in
\* place, when x is a list) or raised
round_to_2(x, u_x) ==
    IF round_to_2_checks(x, u_x) # ""
    THEN [ret |-> Arg("None", <<>>), err |-> round_to_2_checks(x, u_x)]
    ELSE IF x.t = "number" /\ x.v[1] = 0
    THEN [ret |-> Arg("number", <<0>>), err |-> ""]
    ELSE IF u_x.t = "None" \/ (u_x.t = "number" /\ u_x.v[1] = 0)
    THEN [ret |-> round_to_2_alone(x), err |-> ""]
    ELSE [ret |-> round_to_2_with(x, u_x), err |-> ""]

(* --------------------------- ErrNum.relative ---------------------------- *)
\* self.uncertainty / self.value, a fraction, for a value that is not zero
true_div(u, v) == Frac(u, v)

\* abs() of a fraction
abs(q) == Frac(Abs(q.n), Abs(q.d))

\* ErrNum.relative without the abs()
relative_signed(o) ==
    IF o.v = 0 THEN PosInf
    ELSE [k |-> "frac", v |-> true_div(o.u.v, o.v)]

\* ErrNum.relative: np.inf for the value 0, abs(uncertainty / value)
\* otherwise
relative(o) ==
    IF o.v = 0 THEN PosInf
    ELSE [k |-> "frac", v |-> abs(true_div(o.u.v, o.v))]

(* ---------------------------- MeanUncertainty --------------------------- *)
\* src/lab_tools/mean_uncertainty.py. data is a list of elements [t, v]: t
\* is the Python type of the element ("int", "float" or "str") and v its
\* number (0 for a str).
Element(t, v) == [t |-> t, v |-> v]

\* np.asarray(data).dtype: strings make an array of strings, floats an
\* array of float64, ints alone an array of int64
asarray_dtype(data) ==
    IF \E i \in 1..Len(data) : data[i].t = "str" THEN "str_"
    ELSE IF \E i \in 1..Len(data) : data[i].t = "float" THEN "float64"
    ELSE IF Len(data) > 0 THEN "int64"
    ELSE "float64"

\* isinstance(item, (float, int)) for an item of the array: np.float64 is a
\* subclass of float; np.int64 and np.str_ are subclasses of neither
item_isinstance(dtype) == dtype = "float64"

\* np.mean(data, axis=0), a fraction
np_mean(v) == Frac(np_sum(v, Len(v)), Len(v))

\* The square of np.std(data, ddof=1) / np.sqrt(n), a fraction:
\* (n * sum(x ** 2) - sum(x) ** 2) / (n ** 2 * (n - 1))
stderr_squared(v) ==
    LET n == Len(v)
        sq == [i \in 1..n |-> v[i] * v[i]]
    IN Frac(n * np_sum(sq, n) - np_sum(v, n) * np_sum(v, n), n * n * (n - 1))

\* self.stderr / self.mean, squared, keeping the sign of the mean; a
\* division by the np.float64 zero gives inf or nan with a warning
rel_err_of(mean, sq) ==
    IF mean.n = 0 THEN IF sq.n = 0 THEN NaN ELSE PosInf
    ELSE [k |-> "ratio", v |-> <<Sign(mean.n), Frac(sq.n * mean.d * mean.d,
                                                      sq.d * mean.n * mean.n)>>]

\* MeanUncertainty(data): the error raised, and the object when there is
\* none
MeanUncertainty_init(data) ==
    IF Len(data) <= 1 THEN [err |-> "ValueError"]
    ELSE IF ~\E i \in 1..Len(data) : item_isinstance(asarray_dtype(data))
    THEN [err |-> "TypeError"]
    ELSE LET v == [i \in 1..Len(data) |-> data[i].v]
         IN [err |-> "",
             obj |-> [mean |-> np_mean(v), stderr2 |-> stderr_squared(v),
                      rel_err |-> rel_err_of(np_mean(v), stderr_squared(v))]]

(* ------------------------- expand(), step by step ----------------------- *)
\* A thread reading a.derivatives of one AffineScalarFunc a. objs holds one
\* frame for each thread, lcs the heap of LinearCombination objects, last
\* the slot a._linear_part that the threads share. A frame holds the
\* position pc of its thread, the locals self, derivatives and (main_factor,
\* main_expr) = item, and what the call returned (ret, a map). popped is not
\* a local: it counts the terms the thread has popped.
\*   "start"  if is_not_expanded(self._linear_part)      (derivatives)
\*   "while"  while self.linear_combo:                    (expand)
\*   "pop"    main_factor, main_expr = self.linear_combo.pop()
\*   "body"   the if / elif / else on main_expr
\*   "return" return LinearCombination(dict(derivatives))
\*   "rebind" self._linear_part = ...                     (derivatives)
\*   "done", "raised"
Frame(pc, self, derivs, item, popped, ret) ==
    [pc |-> pc, self |-> self, derivatives |-> derivs, item |-> item,
     popped |-> popped, ret |-> ret]

NoItem == <<0, 0>>

\* Mutant of frames_accumulate: derivatives is one dict shared by the
\* threads
frames_accumulate_shared(F, t, main_factor, d) ==
    [u \in 1..Len(F) |->
        [F[u] EXCEPT !.derivatives = Accumulate(F[t].derivatives,
                                                main_factor, d),
                     !.pc = IF u = t THEN "while" ELSE F[u].pc]]

\* The branch is_expanded(main_expr) of thread t: derivatives is a local
\* of the call
frames_accumulate(F, t, main_factor, d) ==
    [F EXCEPT ![t].derivatives = Accumulate(F[t].derivatives, main_factor, d),
              ![t].pc = "while"]

\* Mutant of pushed: the term popped is put back as it was
pushed_back(main_factor, main_expr, item) ==
    <<item>>

\* The branch is_not_expanded(main_expr): what is appended to
\* self.linear_combo
pushed(main_factor, main_expr, item) ==
    Scaled(main_factor, main_expr.list)

(* ------------------------------- file_io -------------------------------- *)
\* objs is the file system, a function from the paths to files; a file is
\* there or not and holds the chunks written to it, in order. A path is a
\* stem and an extension. data is a value [type, items]: of type "str",
\* "int", "ndarray", "set" (a value that pickles and that neither json nor
\* h5py stores), "lock" (a value that does not pickle either) or "dict",
\* its items a sequence of <<key, value>>.
File(exists, content) == [exists |-> exists, content |-> content]

Value(type, items) == [type |-> type, items |-> items]

\* str.lower() on an extension
lower(ext) ==
    IF ext = ".TXT" THEN ".txt" ELSE ext

\* Validate.file_extension(file, expected_ext) for a path: "" or the
\* exception raised
file_extension(file, expected_ext) ==
    IF lower(file.ext) # lower(expected_ext) THEN "ValueError" ELSE ""

\* _check_extension(file, expected_ext) for a path
check_extension(file, expected_ext) ==
    IF file.ext # expected_ext THEN "ValueError" ELSE ""

\* open(file, "w") and open(file, "wb"): the file is created, or truncated
open(fs, file) ==
    [fs EXCEPT ![file] = File(TRUE, <<>>)]

\* f.write(chunk) for each chunk of out
write(fs, file, out) ==
    [fs EXCEPT ![file].content = @ \o out]

Written(out, raised) == [out |-> out, raised |-> raised]

RECURSIVE json_chunks(_)
RECURSIVE json_items(_, _, _)
\* json.dump(data, f) writes the chunks of the encoder as it yields them:
\* the chunks of v up to the value that is not serializable, which raises
\* TypeError
json_chunks(v) ==
    IF v.type \in {"int", "str"} THEN Written(<<v.type>>, "")
    ELSE IF v.type = "dict" THEN json_items(v.items, 1, <<"{">>)
    ELSE Written(<<>>, "TypeError")

json_items(items, i, out) ==
    IF i > Len(items) THEN Written(Append(out, "}"), "")
    ELSE LET w == json_chunks(items[i][2])
         IN IF w.raised # ""
            THEN Written(out \o <<items[i][1]>> \o w.out, w.raised)
            ELSE json_items(items, i + 1, out \o <<items[i][1]>> \o w.out)

RECURSIVE picklable(_)
\* Whether pickle reaches no value it cannot pickle in v
picklable(v) ==
    /\ v.type # "lock"
    /\ \A i \in 1..Len(v.items) : picklable(v.items[i][2])

\* pickle.dump(data, f): the pickle is written when it is complete; a value
\* that cannot be pickled raises TypeError with nothing written
pickle_dump(v) ==
    IF picklable(v) THEN Written(<<"pickle">>, "")
    ELSE Written(<<>>, "TypeError")

RECURSIVE write_group(_, _, _)
\* write_group(group, d) of hdf5_dump, from item i on: what it has stored
\* in the file when it returns or raises
write_group(d, i, out) ==
    IF i > Len(d) THEN Written(out, "")
    ELSE LET key == d[i][1]
             value == d[i][2]
         IN IF value.type = "dict"
            THEN LET w == write_group(value.items, 1,
                                      out \o <<"group", key>>)
                 IN IF w.raised # "" THEN w
                    ELSE write_group(d, i + 1, w.out)
            ELSE IF value.type = "ndarray"
            THEN write_group(d, i + 1, out \o <<"dataset", key>>)
            ELSE IF value.type \in {"int", "str"}
            THEN write_group(d, i + 1, out \o <<"attr", key>>)
            ELSE Written(out, "TypeError")

\* A dump helper that has returned or raised: the file system it leaves
Dumped(fs, raised) == [fs |-> fs, raised |-> raised]

\* PICKLE.dump(file, data)
PICKLE_dump_of(fs, file, data) ==
    IF file_extension(file, ".pkl") # ""
    THEN Dumped(fs, file_extension(file, ".pkl"))
    ELSE LET w == pickle_dump(data)
         IN Dumped(write(open(fs, file), file, w.out), w.raised)

\* JSON.dump(file, data)
JSON_dump_of(fs, file, data) ==
    IF data.type # "dict" THEN Dumped(fs, "TypeError")
    ELSE IF file_extension(file, ".json") # ""
    THEN Dumped(fs, file_extension(file, ".json"))
    ELSE LET w == json_chunks(data)
         IN Dumped(write(open(fs, file), file, w.out), w.raised)

\* TXT.dump(file, data)
TXT_dump_of(fs, file, data) ==
    IF data.type # "str" THEN Dumped(fs, "TypeError")
    ELSE IF file_extension(file, ".txt") # ""
    THEN Dumped(fs, file_extension(file, ".txt"))
    ELSE Dumped(write(open(fs, file), file, <<"str">>), "")

\* hdf5_dump(file, data)
hdf5_dump_of(fs, file, data) ==
    IF check_extension(file, ".h5") # ""
    THEN Dumped(fs, check_extension(file, ".h5"))
    ELSE IF data.type # "dict" THEN Dumped(fs, "TypeError")
    ELSE LET w == write_group(data.items, 1, <<>>)
         IN Dumped(write(open(fs, file), file, w.out), w.raised)

\* The paths: test.pkl, test.json, test.txt, test.TXT, test.h5
Files == {[stem |-> "test", ext |-> e] :
             e \in {".pkl", ".json", ".txt", ".TXT", ".h5"}}

Keys == <<"k1", "k2", "k3">>

Leaves == {Value(t, <<>>) : t \in {"int", "ndarray", "set", "lock"}}

RECURSIVE Nested(_)
\* The values with dicts at most n deep, the keys of a dict in one order
Nested(n) ==
    IF n = 0 THEN Leaves
    ELSE Leaves \cup
         {Value("dict", [i \in 1..Len(vs) |-> <<Keys[i], vs[i]>>]) :
             vs \in UNION {[1..k -> Nested(n - 1)] : k \in 0..MaxItems}}

Datas == Nested(MaxNest) \cup {Value("str", <<>>)}

(* ---------------------------- LoggerFactory ----------------------------- *)
\* objs maps the name of a logger to the Logger that logging.getLogger(name)
\* returns: its level, propagate and its handlers in the order they were
\* added. A logger never asked for is as logging makes it: level NOTSET (0),
\* propagate True, no handler. lcs is the set of log files opened. An
\* argument is NoneValue, int(n) or Path(file).
Logger(level, propagate, handlers) ==
    [level |-> level, propagate |-> propagate, handlers |-> handlers]

int(n) == [is |-> "int", v |-> <<n>>]

Path(file) == [is |-> "Path", v |-> <<file>>]

\* a or b on a level that is None or an int
or(a, b) ==
    IF a = NoneValue \/ a = int(0) THEN b ELSE a

\* logging.StreamHandler() with ch.setLevel(level)
StreamHandler(level) ==
    [cls |-> "StreamHandler", level |-> level, file |-> NoneValue]

\* logging.FileHandler(log_file) with fh.setLevel(level)
FileHandler(log_file, level) ==
    [cls |-> "FileHandler", level |-> level, file |-> log_file]

\* Mutant of get_logger_of: without `if logger.handlers: return logger`
get_logger_again(logger, level, log_file, console, file_level, console_level) ==
    Logger(level, FALSE,
           logger.handlers
             \o (IF console
                 THEN <<StreamHandler(or(console_level, level))>> ELSE <<>>)
             \o (IF log_file # NoneValue
                 THEN <<FileHandler(log_file, or(file_level, level))>>
                 ELSE <<>>))

\* LoggerFactory.get_logger on logger = logging.getLogger(name): the logger
\* it returns
get_logger_of(logger, level, log_file, console, file_level, console_level) ==
    IF logger.handlers # <<>> THEN Logger(level, FALSE, logger.handlers)
    ELSE Logger(level, FALSE,
                (IF console
                 THEN <<StreamHandler(or(console_level, level))>> ELSE <<>>)
                  \o (IF log_file # NoneValue
                      THEN <<FileHandler(log_file, or(file_level, level))>>
                      ELSE <<>>))

Names == {"a", "b"}

\* logging.DEBUG, logging.INFO
Levels == {int(10), int(20)}

\* None, or logging.WARNING
HandlerLevels == {NoneValue, int(30)}

LogFiles == {NoneValue, Path("f1.log"), Path("f2.log")}

(* ------------------------------ actions -------------------------------- *)
\* last records the latest call: its name, the object it was called on, its
\* argument, and what it returned (an object identity in id, a float in f,
\* a dict of coefficients in map, the numerator of a quotient in num) or
\* raised (err).
Call(op, self, arg, id, f, num, map, err) ==
    [op |-> op, self |-> self, arg |-> arg, id |-> id, f |-> f, num |-> num,
     map |-> map, ec |-> EmptyDict, err |-> err]

NoCall == Call("", 0, 0, 0, Unset, 0, EmptyDict, "")

ObjIds == 1..Len(objs)

\* Variable(value, std_dev). Draft "test" assigns through the setter, draft
\* "main" writes the slot directly.
Variable_init(value, sd) ==
    /\ IF draft = "test" /\ rejected(sd)
       THEN /\ last' = Call("Variable", 0, value, 0, sd, 0, EmptyDict,
                            "NegativeStdDev")
            /\ UNCHANGED <<objs, lcs>>
       ELSE /\ lcs' = Append(lcs, LCDict((Len(objs) + 1) :> 1))
            /\ objs' = Append(objs, Obj("Variable", value, Len(lcs) + 1, sd,
                                    <<"Variable", 0, 0>>))
            /\ last' = Call("Variable", 0, value, Len(objs) + 1, sd, 0,
                            EmptyDict, "")
    /\ UNCHANGED draft

\* Mutant of std_dev_setter: the value assigned does not reach the slot
\* that the derived values read
std_dev_setter_dropped(x, sd) ==
    /\ objs[x].cls = "Variable"
    /\ last' = Call("std_dev.setter", x, 0, 0, sd, 0, EmptyDict,
                    IF rejected(sd) THEN "NegativeStdDev" ELSE "")
    /\ UNCHANGED <<draft, objs, lcs>>

\* x.std_dev = sd on an existing Variable
std_dev_setter(x, sd) ==
    /\ objs[x].cls = "Variable"
    /\ IF rejected(sd)
       THEN /\ last' = Call("std_dev.setter", x, 0, 0, sd, 0, EmptyDict,
                            "NegativeStdDev")
            /\ UNCHANGED objs
       ELSE /\ objs' = [objs EXCEPT ![x].std_dev = sd]
            /\ last' = Call("std_dev.setter", x, 0, 0, sd, 0, EmptyDict, "")
    /\ UNCHANGED <<draft, lcs>>

Binary(op, r, a, b) ==
    /\ objs' = r.objs
    /\ lcs' = r.heap
    /\ last' = Call(op, a, b, Len(r.objs), Unset, 0, EmptyDict, "")
    /\ UNCHANGED draft

Add(a, b) == Binary("add", add(objs, lcs, a, b), a, b)

Neg(a) == Binary("neg", neg(objs, lcs, a), a, 0)

Sub(a, b) == Binary("sub", sub(objs, lcs, a, b), a, b)

Mul(a, b) == Binary("mul", mul(objs, lcs, a, b), a, b)

\* A read: r is its outcome, the heaps are left as the read left them
Read(op, a, r) ==
    /\ objs' = r.objs
    /\ lcs' = r.heap
    /\ last' = CASE r.raised ->
                    Call(op, a, 0, 0, Unset, 0, EmptyDict, "NotImplementedError")
                 [] ~r.raised /\ op = "derivatives" ->
                    Call(op, a, 0, 0, Unset, 0, r.ret, "")
                 [] ~r.raised /\ op = "error_components" ->
                    [Call(op, a, 0, 0, Unset, 0, EmptyDict, "")
                        EXCEPT !.ec = r.ret]
                 [] OTHER -> Call(op, a, 0, 0, r.ret, 0, EmptyDict, "")
    /\ UNCHANGED draft

ReadDerivatives(a) ==
    Read("derivatives", a, derivatives(draft, objs, lcs, a))

ReadErrorComponents(a) ==
    Read("error_components", a, error_components(draft, objs, lcs, a))

ReadStdDev(a) == Read("std_dev", a, std_dev(draft, objs, lcs, a))

\* The outcome r of std_score(value) on a
Score(a, value, r) ==
    /\ objs' = r.objs
    /\ lcs' = r.heap
    /\ last' = IF r.raised
               THEN Call("std_score", a, value, 0, Unset, 0, EmptyDict,
                         "ValueError")
               ELSE Call("std_score", a, value, 0, r.den, r.num, EmptyDict, "")
    /\ UNCHANGED draft

\* std_score exists in draft "test" only
StdScore(a, value) ==
    /\ draft = "test"
    /\ Score(a, value, std_score(draft, objs, lcs, a, value))

\* The LinearCombination objects a caller holds: the linear parts of the
\* objects, and the object the latest expand() returned.
Held == {objs[a].linear_part : a \in ObjIds}
            \cup (IF last.op = "expand" /\ last.id # 0 THEN {last.id} ELSE {})

\* The outcome r of l.expand()
Expanded(l, r) ==
    /\ lcs' = r.heap
    /\ last' = IF r.raised
               THEN Call("expand", l, 0, 0, Unset, 0, EmptyDict,
                         IF is_not_expanded(lcs[l]) THEN "NotImplementedError"
                         ELSE "AttributeError")
               ELSE Call("expand", l, 0, r.ret, Unset, 0, r.heap[r.ret].dict, "")
    /\ UNCHANGED <<draft, objs>>

\* l.expand() called directly on a held LinearCombination
CallExpand(l) == Expanded(l, expand(draft, lcs, l))

\* The objects a caller holds: every object but the Variables that exist
\* only as keys of a deep-copied combination
Handles == {a \in ObjIds : objs[a].made[1] # "key"}

\* A copy: r is its outcome
Copied(op, a, r) ==
    /\ objs' = r.objs
    /\ lcs' = r.heap
    /\ last' = Call(op, a, 0, r.ret, Unset, 0, EmptyDict,
                    IF r.raised THEN "NegativeStdDev" ELSE "")
    /\ UNCHANGED draft

\* copy.copy(x) of a Variable
Copy(x) ==
    /\ objs[x].cls = "Variable"
    /\ Copied("copy", x, Variable_copy(draft, objs, lcs, x, <<"copy", x, 0>>))

\* copy.deepcopy(a)
DeepCopy(a) ==
    Copied("deepcopy", a, AffineScalarFunc_deepcopy(draft, objs, lcs, a))

\* The outcome r of l.expand() when the caller drops the returned object: a
\* new object nothing refers to is not kept in the heap
Discarded(l, r) ==
    /\ lcs' = IF r.ret > Len(lcs) THEN SubSeq(r.heap, 1, Len(lcs)) ELSE r.heap
    /\ last' = IF r.raised
               THEN Call("expand", l, 0, 0, Unset, 0, EmptyDict,
                         "NotImplementedError")
               ELSE Call("expand", l, 0, 0, Unset, 0, r.heap[r.ret].dict, "")
    /\ UNCHANGED <<draft, objs>>

ExpandDiscard(l) == Discarded(l, expand(draft, lcs, l))

\* ErrNum(value, uncertainty)
ErrNum_init(value, unc) ==
    /\ objs' = Append(objs,
                  ErrNum_obj(value, URoot(unc * unc),
                      IF draft = "ErrNum2" THEN (Len(objs) + 1) :> 1
                      ELSE EmptyDict,
                      <<Len(objs) + 1, 1>>))
    /\ last' = Call("ErrNum", 0, value, Len(objs) + 1, URoot(unc * unc), 0,
                    EmptyDict, "")
    /\ UNCHANGED <<draft, lcs>>

\* The outcome r of objs[a] <op> other
Arith_done(op, a, other, r) ==
    /\ objs' = r.objs
    /\ last' = Call(op, a, other, r.id, Unset, 0, EmptyDict, r.err)
    /\ UNCHANGED <<draft, lcs>>

Arith(op, a, other) ==
    Arith_done(op, a, other, ErrNum_op(draft, objs, op, a, other))

\* other - objs[a] for a plain other
RSub(other, a) ==
    Arith_done("rsub", a, other,
               ErrNum_rsub(objs, ErrNum_op("ErrNum", objs, "add", a, other)))

\* The objects correlated_values returns, r being its outcome: the latent
\* Variables Variable(0, sqrt(variance), tag), each over its own
\* combination {self: 1.0}, then the values AffineScalarFunc(value,
\* LinearCombination(dict(zip(variables, coords))))
latent_objs(r) ==
    [k \in 1..Len(r.variables) |->
        Obj("Variable", 0, k, [k |-> "root", v |-> r.variables[k]],
            <<"latent", k, 0>>)]

latent_lcs(r) ==
    [k \in 1..Len(r.variables) |-> LCDict(k :> Coef(1, FALSE))]

value_objs(r) ==
    [i \in 1..Len(r.values) |->
        Obj("AffineScalarFunc", r.values[i].value, Len(r.variables) + i,
            Unset, <<"correlated", i, 0>>)]

value_lcs(r) ==
    [i \in 1..Len(r.values) |->
        LCDict([k \in 1..Len(r.values[i].coords) |-> r.values[i].coords[k]])]

Correlated(r) ==
    /\ objs' = latent_objs(r) \o value_objs(r)
    /\ lcs' = latent_lcs(r) \o value_lcs(r)
    /\ last' = Call("correlated_values", 0, last.arg,
                    [i \in 1..Len(r.values) |-> Len(r.variables) + i],
                    Unset, 0, EmptyDict, r.err)
    /\ UNCHANGED draft

\* correlated_values(nom_values, covariance_mat) on the arguments at hand
CorrelatedValues ==
    /\ last.op = "arguments"
    /\ Correlated(correlated_values(last.arg.nom_values,
                                    last.arg.covariance_mat))

(* -------------------------- CurveFit: actions --------------------------- *)
FitCall(op, arg, r) == [op |-> op, arg |-> arg, ret |-> r.ret, err |-> r.err]

\* The values an element of x or y takes
DataValues == {Fin(v) : v \in Values} \cup {NaN}

\* pcov as the solver returns it: the same variance for every parameter,
\* no covariance (inf when the covariance could not be estimated)
Pcovs(n) ==
    {[i \in 1..n |-> [j \in 1..n |-> IF i = j THEN var ELSE Fin(0)]] :
        var \in {Fin(0), Fin(1), PosInf}}

\* cf.fit()
Fit ==
    \E outcome \in Outcomes(lcs) :
    \E popt \in [1..n_params(objs[1].fun) -> Values],
       pcov \in Pcovs(n_params(objs[1].fun)) :
        LET r == fit(objs[1], lcs, outcome, popt, pcov)
        IN /\ objs' = <<r.obj>>
           /\ last' = FitCall("fit", <<>>, r)
           /\ UNCHANGED <<draft, lcs>>

\* cf.params, cf.stderr, cf.r2, cf.covariance
Property(op) ==
    /\ last' = FitCall(op, <<>>, property(objs[1], "_" \o op))
    /\ UNCHANGED <<draft, objs, lcs>>

\* cf.predict_x(y)
PredictX(y) ==
    /\ last' = FitCall("predict_x", y, predict_x(objs[1], y))
    /\ UNCHANGED <<draft, objs, lcs>>

\* cf.predict_y(x)
PredictY(x) ==
    /\ last' = FitCall("predict_y", x, predict_y(objs[1], x))
    /\ UNCHANGED <<draft, objs, lcs>>

\* list(cf)
Iterate ==
    /\ last' = FitCall("iter", <<>>, iterate(objs[1]))
    /\ UNCHANGED <<draft, objs, lcs>>

\* cf.x[i] = value and cf.y[i] = value, by the owner of the object
SetItem(name, i, value) ==
    /\ lcs' = [lcs EXCEPT ![name][i] = value]
    /\ last' = FitCall("setitem", <<>>, [ret |-> NoneValue, err |-> ""])
    /\ UNCHANGED <<draft, objs>>

(* ---------------------- LinearRegression: actions ----------------------- *)
\* LinearRegression(x, y, limits=limits) on the arguments at hand
Construct ==
    /\ last.op = "arguments"
    /\ LET r == LinearRegression_init(last.arg.x, last.arg.y, last.arg.limits)
       IN /\ objs' = IF r.err = "" THEN <<r.obj>> ELSE <<>>
          /\ last' = [op |-> "LinearRegression", arg |-> last.arg,
                      err |-> r.err]
    /\ UNCHANGED <<draft, lcs>>

(* ------------------------- round_to_2: actions -------------------------- *)
\* round_to_2(x, u_x) on the arguments at hand. objs holds the list the
\* caller passed as x, which the function changes in place.
RoundTo2 ==
    /\ last.op = "arguments"
    /\ LET r == round_to_2(last.arg.x, last.arg.u_x)
       IN /\ objs' = IF r.err = "" /\ last.arg.x.t = "list" THEN <<r.ret.v>>
                     ELSE objs
          /\ last' = [op |-> "round_to_2", arg |-> last.arg, ret |-> r.ret,
                      err |-> r.err]
    /\ UNCHANGED <<draft, lcs>>

(* -------------------- expand(), step by step: actions ------------------- *)
\* if is_not_expanded(self._linear_part): enter expand() on it, or return
\* the map of the expanded combination
StepStart(t) ==
    /\ objs[t].pc = "start"
    /\ objs' = IF is_not_expanded(lcs[last.linear_part])
               THEN [objs EXCEPT ![t].pc = "while",
                                 ![t].self = last.linear_part]
               ELSE [objs EXCEPT ![t].pc = "done",
                                 ![t].ret = lcs[last.linear_part].dict]
    /\ UNCHANGED <<draft, lcs, last>>

\* while self.linear_combo:
StepWhile(t) ==
    /\ objs[t].pc = "while"
    /\ objs' = [objs EXCEPT ![t].pc = IF LC_bool(lcs[objs[t].self])
                                      THEN "pop" ELSE "return"]
    /\ UNCHANGED <<draft, lcs, last>>

\* main_factor, main_expr = self.linear_combo.pop(): IndexError when
\* another thread has emptied the list since the test
StepPop(t) ==
    /\ objs[t].pc = "pop"
    /\ LET work == lcs[objs[t].self].list
       IN IF work = <<>>
          THEN /\ objs' = [objs EXCEPT ![t].pc = "raised"]
               /\ UNCHANGED lcs
          ELSE /\ lcs' = [lcs EXCEPT ![objs[t].self].list =
                                        SubSeq(work, 1, Len(work) - 1)]
               /\ objs' = [objs EXCEPT ![t].pc = "body",
                                       ![t].item = work[Len(work)],
                                       ![t].popped = @ + 1]
    /\ UNCHANGED <<draft, last>>

\* The body of the loop on the term popped
StepBody(t) ==
    /\ objs[t].pc = "body"
    /\ LET main_factor == objs[t].item[1]
           main_expr == lcs[objs[t].item[2]]
       IN IF is_expanded(main_expr)
          THEN /\ objs' = frames_accumulate(objs, t, main_factor,
                                            main_expr.dict)
               /\ UNCHANGED lcs
          ELSE IF is_not_expanded(main_expr)
          THEN /\ lcs' = [lcs EXCEPT ![objs[t].self].list =
                             @ \o pushed(main_factor, main_expr, objs[t].item)]
               /\ objs' = [objs EXCEPT ![t].pc = "while"]
          ELSE /\ objs' = [objs EXCEPT ![t].pc = IF draft = "test"
                                                 THEN "raised" ELSE "while"]
               /\ UNCHANGED lcs
    /\ UNCHANGED <<draft, last>>

\* return LinearCombination(dict(derivatives))
StepReturn(t) ==
    /\ objs[t].pc = "return"
    /\ lcs' = Append(lcs, LCDict(objs[t].derivatives))
    /\ objs' = [objs EXCEPT ![t].pc = "rebind", ![t].self = Len(lcs) + 1]
    /\ UNCHANGED <<draft, last>>

\* self._linear_part = ...; return self._linear_part.linear_combo
StepRebind(t) ==
    /\ objs[t].pc = "rebind"
    /\ last' = [last EXCEPT !.linear_part = objs[t].self]
    /\ objs' = [objs EXCEPT ![t].pc = "done",
                            ![t].ret = lcs[objs[t].self].dict]
    /\ UNCHANGED <<draft, lcs>>

(* ------------------- malformed combinations: actions -------------------- *)
\* LinearCombination(linear_combo) with linear_combo a list of terms
\* (rep "list") or a tuple of terms (rep "other")
LinearCombination_init(rep, linear_combo) ==
    /\ lcs' = Append(lcs, LC(rep, linear_combo, EmptyDict))
    /\ last' = Call("LinearCombination", 0, 0, Len(lcs) + 1, Unset, 0,
                    EmptyDict, "")
    /\ UNCHANGED <<draft, objs>>

\* AffineScalarFunc(nominal_value, linear_part) with linear_part the
\* LinearCombination l: it is kept as it is
AffineScalarFunc_new(nominal_value, l) ==
    /\ objs' = Append(objs, Obj("AffineScalarFunc", nominal_value, l, Unset,
                                <<"AffineScalarFunc", 0, 0>>))
    /\ last' = Call("AffineScalarFunc", 0, nominal_value, Len(objs) + 1,
                    Unset, 0, EmptyDict, "")
    /\ UNCHANGED <<draft, lcs>>

(* ------------------------ ErrNum.relative: actions ---------------------- *)
\* p.relative, also read as p.r
Relative(a) ==
    /\ last' = Call("relative", a, 0, 0, relative(objs[a]), 0, EmptyDict, "")
    /\ UNCHANGED <<draft, objs, lcs>>

(* ----------------------- MeanUncertainty: actions ----------------------- *)
\* MeanUncertainty(data) on the argument at hand
MeanUncertainty ==
    /\ last.op = "arguments"
    /\ LET r == MeanUncertainty_init(last.arg)
       IN /\ objs' = IF r.err = "" THEN <<r.obj>> ELSE <<>>
          /\ last' = [op |-> "MeanUncertainty", arg |-> last.arg,
                      err |-> r.err]
    /\ UNCHANGED <<draft, lcs>>

(* --------------------------- file_io: actions --------------------------- *)
\* A call of a dump helper, the one call of a behaviour: last keeps the
\* call, the exception it raised and the file system before it
Dump(helper, file, data, raised, before) ==
    [helper |-> helper, file |-> file, data |-> data, raised |-> raised,
     before |-> before]

PICKLE_dump ==
    /\ last.helper = ""
    /\ \E file \in Files, data \in Datas :
           LET r == PICKLE_dump_of(objs, file, data)
           IN /\ objs' = r.fs
              /\ last' = Dump("PICKLE.dump", file, data, r.raised, objs)
    /\ UNCHANGED <<draft, lcs>>

JSON_dump ==
    /\ last.helper = ""
    /\ \E file \in Files, data \in Datas :
           LET r == JSON_dump_of(objs, file, data)
           IN /\ objs' = r.fs
              /\ last' = Dump("JSON.dump", file, data, r.raised, objs)
    /\ UNCHANGED <<draft, lcs>>

TXT_dump ==
    /\ last.helper = ""
    /\ \E file \in Files, data \in Datas :
           LET r == TXT_dump_of(objs, file, data)
           IN /\ objs' = r.fs
              /\ last' = Dump("TXT.dump", file, data, r.raised, objs)
    /\ UNCHANGED <<draft, lcs>>

hdf5_dump ==
    /\ last.helper = ""
    /\ \E file \in Files, data \in Datas :
           LET r == hdf5_dump_of(objs, file, data)
           IN /\ objs' = r.fs
              /\ last' = Dump("hdf5_dump", file, data, r.raised, objs)
    /\ UNCHANGED <<draft, lcs>>

(* ------------------------ LoggerFactory: actions ------------------------ *)
\* LoggerFactory.get_logger(name, level, log_file, console, file_level,
\* console_level); last keeps the call and the number of handlers it added
get_logger ==
    \E name \in Names, level \in Levels, log_file \in LogFiles,
       console \in BOOLEAN, file_level \in HandlerLevels,
       console_level \in HandlerLevels :
        LET logger == get_logger_of(objs[name], level, log_file, console,
                                    file_level, console_level)
        IN /\ objs' = [objs EXCEPT ![name] = logger]
           /\ lcs' = IF \E i \in 1..Len(logger.handlers) :
                           /\ i > Len(objs[name].handlers)
                           /\ logger.handlers[i].cls = "FileHandler"
                     THEN lcs \cup {log_file} ELSE lcs
           /\ last' = [name |-> name, level |-> level, log_file |-> log_file,
                       console |-> console,
                       added |-> Len(logger.handlers)
                                   - Len(objs[name].handlers)]
           /\ UNCHANGED draft

(* --------------------------- specifications ---------------------------- *)
Init ==
    /\ draft \in Drafts
    /\ objs = <<>>
    /\ lcs = <<>>
    /\ last = NoCall

\* The step stays within mo objects, mv Variables and ml LinearCombinations
Bounded(mo, mv, ml) ==
    /\ Len(objs') <= mo
    /\ Cardinality({x \in 1..Len(objs') : objs'[x].cls = "Variable"}) <= mv
    /\ Len(lcs') <= ml

\* The engine on Variables with permitted standard deviations
Next ==
    /\ \/ \E value \in Values, sd \in PermittedStdDevs :
             Variable_init(value, sd)
       \/ \E a \in ObjIds, b \in ObjIds : Add(a, b) \/ Sub(a, b) \/ Mul(a, b)
       \/ \E a \in ObjIds : Neg(a)
       \/ \E a \in ObjIds : ReadDerivatives(a)
       \/ \E a \in ObjIds : ReadStdDev(a)
       \/ \E l \in Held : CallExpand(l)
    /\ Bounded(MaxObjs, MaxVars, MaxLcs)

Spec == Init /\ [][Next]_vars

\* Construction of Variables and assignment to std_dev, any float given
NextVar ==
    /\ \/ \E value \in Values, sd \in AnyStdDevs : Variable_init(value, sd)
       \/ \E x \in ObjIds, sd \in AnyStdDevs : std_dev_setter(x, sd)
       \/ \E a \in ObjIds : ReadStdDev(a)
    /\ Bounded(MaxVars, MaxVars, MaxVars)

SpecVar == Init /\ [][NextVar]_vars

\* Reads of derived values: error components, std_dev, std_score
NextRead ==
    /\ \/ \E value \in Values, sd \in PermittedStdDevs :
             Variable_init(value, sd)
       \/ \E a \in ObjIds, b \in ObjIds : Add(a, b) \/ Sub(a, b) \/ Mul(a, b)
       \/ \E a \in ObjIds : Neg(a)
       \/ \E a \in ObjIds : ReadErrorComponents(a)
       \/ \E a \in ObjIds : ReadStdDev(a)
       \/ \E a \in ObjIds, value \in Values : StdScore(a, value)
    /\ Bounded(MaxReadObjs, MaxReadObjs, MaxReadLcs)

SpecRead == Init /\ [][NextRead]_vars

\* Expansion of nested combinations
NextExpand ==
    /\ \/ \E value \in Values, sd \in PermittedStdDevs :
             Variable_init(value, sd)
       \/ \E a \in ObjIds, b \in ObjIds : Add(a, b) \/ Sub(a, b) \/ Mul(a, b)
       \/ \E a \in ObjIds : Neg(a)
       \/ \E a \in ObjIds : ReadDerivatives(a)
       \/ \E l \in Held : CallExpand(l)
    /\ Bounded(MaxReadObjs, MaxReadObjs, MaxReadLcs)

SpecExpand == Init /\ [][NextExpand]_vars

\* Copies of Variables and their differences
NextCopy ==
    /\ \/ \E value \in Values, sd \in PermittedStdDevs :
             Variable_init(value, sd)
       \/ \E a \in Handles, b \in Handles : Sub(a, b)
       \/ \E x \in Handles : Copy(x)
       \/ \E a \in Handles : DeepCopy(a)
       \/ \E a \in Handles : ReadDerivatives(a)
       \/ \E a \in Handles : ReadStdDev(a)
    /\ Bounded(MaxCopyObjs, MaxCopyObjs, MaxCopyLcs)

SpecCopy == Init /\ [][NextCopy]_vars

\* The running sum: x = Variable(value, sd); total = x; then repeatedly
\* total = total + x - x, reading total.std_dev at any time. x is object 1
\* and total the latest object; the temporaries of a step are not held.
x0 == 1

sum_total == Len(objs)

sum_steps == Len(objs) - 1

InitSum ==
    /\ draft \in Drafts
    /\ \E value \in Values, sd \in PermittedStdDevs :
          /\ objs = <<Obj("Variable", value, 1, sd, <<"Variable", 0, 0>>)>>
          /\ last = Call("Variable", 0, value, 1, sd, 0, EmptyDict, "")
    /\ lcs = <<LCDict(1 :> 1)>>

SumStep ==
    LET t == add(objs, lcs, sum_total, x0)
        r == sub(t.objs, t.heap, Len(t.objs), x0)
    IN  /\ sum_steps < MaxSteps
        /\ objs' = Append(objs, r.objs[Len(r.objs)])
        /\ lcs' = r.heap
        /\ last' = Call("sub", sum_total, x0, Len(objs) + 1, Unset, 0,
                        EmptyDict, "")
        /\ UNCHANGED draft

SumReturn(r) ==
    /\ objs' = r.objs
    /\ lcs' = r.heap
    /\ last' = Call("std_dev", sum_total, 0, 0, r.ret, 0, EmptyDict,
                    IF r.raised THEN "NotImplementedError" ELSE "")
    /\ UNCHANGED draft

SumRead == SumReturn(std_dev(draft, objs, lcs, sum_total))

NextSum == SumStep \/ SumRead

SpecSum == InitSum /\ [][NextSum]_vars

\* Deep copies of derived values, read and expanded: x = Variable(value,
\* sd), a chain of values derived from the latest one and x, the latest
\* deep-copied once, and every derived value read or its linear part
\* expanded at any time.
InitDeep ==
    /\ draft \in Drafts
    /\ \E value \in Values, sd \in PermittedStdDevs :
          /\ objs = <<Obj("Variable", value, 1, sd, <<"Variable", 0, 0>>)>>
          /\ last = Call("Variable", 0, value, 1, sd, 0, EmptyDict, "")
    /\ lcs = <<LCDict(1 :> 1)>>

\* The derived values held: the built ones and the deep copy
Derived == {a \in ObjIds : objs[a].cls = "AffineScalarFunc"}

NoCopyYet == \A a \in ObjIds : objs[a].made[1] \notin {"deepcopy", "key"}

DeepBuild ==
    /\ NoCopyYet
    /\ Len(objs) - 1 < MaxDeepSteps
    /\ \/ Add(Len(objs), x0) \/ Mul(Len(objs), x0)
       \/ Neg(Len(objs))

DeepCopyOnce ==
    /\ NoCopyYet
    /\ objs[Len(objs)].cls = "AffineScalarFunc"
    /\ DeepCopy(Len(objs))

NextDeep ==
    \/ DeepBuild
    \/ DeepCopyOnce
    \/ \E a \in Derived : ReadDerivatives(a)
    \/ \E a \in Derived : ExpandDiscard(objs[a].linear_part)

SpecDeep == InitDeep /\ [][NextDeep]_vars

\* Arithmetic on ErrNum objects with every kind of operand
ErrValues == {2, 3}

ErrUncertainties == {0, 1}

\* The operands that are not ErrNum objects
PlainOperands ==
    {Operand("int", 2, <<>>), Operand("int", 3, <<>>),
     Operand("float", 2, <<>>), Operand("str", 0, <<"1", "2">>),
     Operand("str", 0, <<"a">>), Operand("list", 0, <<>>)}

Operands == PlainOperands \cup {Operand("ErrNum", b, <<>>) : b \in ObjIds}

InitErrNum ==
    /\ draft \in ErrNums
    /\ objs = <<>>
    /\ lcs = <<>>
    /\ last = NoCall

NextErrNum ==
    /\ \/ \E value \in ErrValues, unc \in ErrUncertainties :
             ErrNum_init(value, unc)
       \/ \E a \in ObjIds, other \in Operands :
             Arith("add", a, other) \/ Arith("sub", a, other)
       \/ \E a \in ObjIds, other \in PlainOperands : Arith("mul", a, other)
    /\ Len(objs') <= MaxErrNums

SpecErrNum == InitErrNum /\ [][NextErrNum]_vars

\* Correlated values built from every covariance matrix of these kinds:
\* square and symmetric with variances 0, 1 or 4 and at most one
\* correlated pair, of positive variances; or not square
Variances == {0, 1, 4}

Covariances == {-2, -1, 1, 2}

Dims == 1..MaxDim

PairsOf(n) == {pq \in (1..n) \X (1..n) : pq[1] < pq[2]}

SquareMatrix(n, diag, pq, c) ==
    [i \in 1..n |->
        [j \in 1..n |->
            IF i = j THEN diag[i]
            ELSE IF {i, j} = {pq[1], pq[2]} THEN c ELSE 0]]

SquareMatrices(n) ==
    {SquareMatrix(n, diag, <<0, 0>>, 0) : diag \in [1..n -> Variances]}
        \cup {SquareMatrix(n, diag, pq, c) :
                 diag \in [1..n -> Variances \ {0}], pq \in PairsOf(n),
                 c \in Covariances}

Matrices ==
    UNION {SquareMatrices(n) : n \in Dims}
        \cup {[i \in 1..rc[1] |-> [j \in 1..rc[2] |-> 1]] :
                 rc \in {d \in Dims \X Dims : d[1] # d[2]}}

NominalValues == UNION {[1..m -> Values] : m \in 0..(MaxDim + 1)}

InitCorr ==
    /\ draft = "core"
    /\ objs = <<>>
    /\ lcs = <<>>
    /\ \E nom_values \in NominalValues, covariance_mat \in Matrices :
          last = Call("arguments", 0,
                      [nom_values |-> nom_values,
                       covariance_mat |-> covariance_mat],
                      <<>>, Unset, 0, EmptyDict, "")

NextCorr == CorrelatedValues

SpecCorr == InitCorr /\ [][NextCorr]_vars

\* One CurveFit object over two points
InitFit ==
    /\ draft = "curve_fit"
    /\ \E fun \in Models : objs = <<CurveFit_init(fun)>>
    /\ \E x \in [1..2 -> DataValues], y \in [1..2 -> DataValues] :
          lcs = [x |-> x, y |-> y]
    /\ last = FitCall("CurveFit", <<>>, [ret |-> Self, err |-> ""])

NextFit ==
    \/ Fit
    \/ \E op \in {"params", "stderr", "r2", "covariance"} : Property(op)
    \/ \E v \in Values : PredictX(<<v>>)
    \/ \E v \in Values : PredictY(<<v>>)
    \/ Iterate
    \/ \E name \in {"x", "y"}, i \in 1..2, value \in DataValues :
          SetItem(name, i, value)

SpecFit == InitFit /\ [][NextFit]_vars

\* The array-likes of numbers with one row of n elements
Flat(n) == {ArrayLike("number", 1, <<row>>) : row \in [1..n -> Values]}

\* x and y: one-dimensional of one or two elements, or nested
Arrays == Flat(1) \cup Flat(2) \cup {ArrayLike("number", 2, <<<<2, 3>>>>)}

\* limits: None, numbers (none to MaxLimits of them), strings, or nested
Limits ==
    {None}
    \cup UNION {Flat(n) : n \in 0..MaxLimits}
    \cup {ArrayLike("str", 1, <<row>>) : row \in [1..2 -> Values]}
    \cup {ArrayLike("number", 2, <<<<2, 3>>>>),
          ArrayLike("number", 2, <<<<2>>, <<3>>>>)}

InitLimits ==
    /\ draft = "linear_regression"
    /\ objs = <<>>
    /\ lcs = <<>>
    /\ \E x \in Arrays, y \in Arrays, limits \in Limits :
          last = [op |-> "arguments",
                  arg |-> [x |-> x, y |-> y, limits |-> limits], err |-> ""]

NextLimits == Construct

SpecLimits == InitLimits /\ [][NextLimits]_vars

\* The numbers x takes: the multiples of 1/8 up to MaxEighths / 8
Eighths == {125 * m : m \in (-MaxEighths)..MaxEighths}

\* The elements of a list x: 0, 1/8, 12.5, 124, -99.5
ListValues == {0, 125, 12500, 124000, -99500}

\* The uncertainties: 0, 1/8, 1, 20, -1
Uncertainties == {0, 125, 1000, 20000, -1000}

Xs ==
    {Arg("number", <<v>>) : v \in Eighths}
    \cup {Arg("list", v) : v \in UNION {[1..n -> ListValues] : n \in 0..2}}
    \cup {Arg("str", <<>>)}

UXs ==
    {Arg("None", <<>>), Arg("str", <<>>)}
    \cup {Arg("number", <<u>>) : u \in Uncertainties}
    \cup {Arg("list", v) : v \in UNION {[1..n -> {0, 1000}] : n \in 1..2}}

InitRound ==
    /\ draft = "rounding"
    /\ lcs = <<>>
    /\ \E x \in Xs, u_x \in UXs :
          /\ objs = IF x.t = "list" THEN <<x.v>> ELSE <<>>
          /\ last = [op |-> "arguments", arg |-> [x |-> x, u_x |-> u_x],
                     ret |-> Arg("None", <<>>), err |-> ""]

NextRound == RoundTo2

SpecRound == InitRound /\ [][NextRound]_vars

\* The elements of data: ints, floats (a negative one among them) and a str
Elements ==
    {Element("int", v) : v \in Values}
    \cup {Element("float", v) : v \in Values \cup {-2}}
    \cup {Element("str", 0)}

InitMean ==
    /\ draft = "mean_uncertainty"
    /\ objs = <<>>
    /\ lcs = <<>>
    /\ \E data \in UNION {[1..n -> Elements] : n \in 0..MaxData} :
          last = [op |-> "arguments", arg |-> data, err |-> ""]

NextMean == MeanUncertainty

SpecMean == InitMean /\ [][NextMean]_vars

\* ErrNum objects of negative, zero and positive value, and their relative
\* error
RelValues == (-3)..3

RelUncertainties == 0..2

InitRelative ==
    /\ draft = "ErrNum"
    /\ objs = <<>>
    /\ lcs = <<>>
    /\ last = NoCall

NextRelative ==
    /\ \/ \E value \in RelValues, unc \in RelUncertainties :
             ErrNum_init(value, unc)
       \/ \E a \in ObjIds : Relative(a)
    /\ Len(objs') <= MaxRelNums

SpecRelative == InitRelative /\ [][NextRelative]_vars

\* Combinations built by hand, some of them over a tuple, then expanded
NextMalformed ==
    /\ \/ \E value \in Values : Variable_init(value, Fin(1))
       \/ \E rep \in {"list", "other"}, l \in 1..Len(lcs), factor \in Values :
             LinearCombination_init(rep, <<<<factor, l>>>>)
       \/ \E l \in 1..Len(lcs) : AffineScalarFunc_new(2, l)
       \/ \E l \in 1..Len(lcs) : CallExpand(l)
       \/ \E a \in ObjIds : ReadDerivatives(a)
    /\ Bounded(MaxBadObjs, MaxBadVars, MaxBadLcs)

SpecMalformed == Init /\ [][NextMalformed]_vars

\* The well-formed terms of a combination over the combinations before i:
\* none, one or two terms
TermLists(i) ==
    UNION {[1..k -> {2} \X (1..(i - 1))] : k \in 0..2}

\* The heaps of n LinearCombination objects: the linear parts of two
\* Variables, then combinations each over the objects before it
RECURSIVE Heaps(_)
Heaps(n) ==
    IF n = 2 THEN {<<LCDict(1 :> 1), LCDict(2 :> 1)>>}
    ELSE {Append(H, LCList(terms)) : H \in Heaps(n - 1), terms \in TermLists(n)}

\* threads threads about to read the derivatives of a value whose linear
\* part is the last combination of a heap of at most n. single is not a
\* slot: it is the map that expand() run alone on that combination gives.
InitThreads(threads, n) ==
    /\ draft \in Drafts
    /\ objs = [t \in 1..threads |->
                  Frame("start", 0, EmptyDict, NoItem, 0, EmptyDict)]
    /\ \E k \in 3..n : lcs \in Heaps(k)
    /\ last = [linear_part |-> Len(lcs),
               single |-> expand_loop(draft, lcs, lcs[Len(lcs)].list,
                                      EmptyDict).derivatives]

InitLoop == InitThreads(1, MaxLoopNodes)

NextLoop ==
    \/ \E t \in 1..Len(objs) : StepStart(t)
    \/ \E t \in 1..Len(objs) : StepWhile(t)
    \/ \E t \in 1..Len(objs) : StepPop(t)
    \/ \E t \in 1..Len(objs) : StepBody(t)
    \/ \E t \in 1..Len(objs) : StepReturn(t)
    \/ \E t \in 1..Len(objs) : StepRebind(t)

\* One thread: it is never kept from its next step
SpecLoop == InitLoop /\ [][NextLoop]_vars /\ WF_vars(NextLoop)

InitRace == InitThreads(2, MaxRaceNodes)

\* Two threads, interleaved at every step
SpecRace == InitRace /\ [][NextLoop]_vars

\* The paths name no file, or files written before
InitDump ==
    /\ draft = "file_io"
    /\ \E f \in {File(FALSE, <<>>), File(TRUE, <<"old">>)} :
           objs = [file \in Files |-> f]
    /\ lcs = <<>>
    /\ last = Dump("", CHOOSE f \in Files : TRUE, Value("str", <<>>), "",
                   objs)

\* One call of a helper on each file system
NextDump ==
    \/ PICKLE_dump
    \/ JSON_dump
    \/ TXT_dump
    \/ hdf5_dump

SpecDump == InitDump /\ [][NextDump]_vars

\* Assignments to the std_dev of Variables among reads of derived values
NextAssign ==
    /\ \/ \E value \in Values : Variable_init(value, Fin(1))
       \/ /\ Len(objs) < MaxSetObjs
          /\ \E a \in ObjIds, b \in ObjIds : Add(a, b) \/ Mul(a, b)
       \/ \E a \in ObjIds : ReadStdDev(a)
       \/ \E x \in ObjIds, sd \in PermittedStdDevs \cup {Fin(-1)} :
             std_dev_setter(x, sd)
    /\ Bounded(MaxSetObjs, MaxSetVars, MaxSetLcs)

SpecAssign == Init /\ [][NextAssign]_vars

\* No logger asked for yet
InitLogger ==
    /\ draft = "config"
    /\ objs = [name \in Names |-> Logger(int(0), TRUE, <<>>)]
    /\ lcs = {}
    /\ last = [name |-> "", level |-> int(0), log_file |-> NoneValue,
               console |-> FALSE, added |-> 0]

NextLogger == get_logger

SpecLogger == InitLogger /\ [][NextLogger]_vars

\* The class of ErrNum.py under +, - and the reflected -
InitReflected ==
    /\ draft = "ErrNum"
    /\ objs = <<>>
    /\ lcs = <<>>
    /\ last = NoCall

NextReflected ==
    /\ \/ \E value \in ErrValues, unc \in ErrUncertainties :
             ErrNum_init(value, unc)
       \/ \E a \in ObjIds, other \in Operands :
             Arith("add", a, other) \/ Arith("sub", a, other)
       \/ \E a \in ObjIds, other \in PlainOperands : RSub(other, a)
    /\ Len(objs') <= MaxErrNums

SpecReflected == InitReflected /\ [][NextReflected]_vars

(* ------------------------------- claims -------------------------------- *)
\* What reading a.derivatives and a.std_dev would return in this state
PeekDerivatives(a) == derivatives(draft, objs, lcs, a).ret

PeekStdDev(a) == std_dev(draft, objs, lcs, a).ret

\* C3: in the running sum, after any number of steps total = total + x - x,
\* total.nominal_value equals x.nominal_value and total.std_dev equals
\* x.std_dev, both as a read would return it now and as the latest read
\* returned it.
C3_RunningSum ==
    /\ objs[sum_total].nominal_value = objs[x0].nominal_value
    /\ PeekStdDev(sum_total) = objs[x0].std_dev
    /\ last.op = "std_dev" => last.err = "" /\ last.f = objs[x0].std_dev

C3_Witness ==
    /\ sum_steps = MaxSteps
    /\ last.op = "std_dev"
    /\ last.self = sum_total
    /\ last.f = Fin(1)

\* 2 * u for a standard deviation u
Twice(u) ==
    CASE u.k = "fin" -> Fin(2 * u.v)
      [] OTHER -> u

\* C1: for every Variable x with a permitted std_dev u (0, positive or +inf),
\* x - x expands to {x: 0} and has std_dev exactly 0, and x + x expands to
\* {x: 2} and has std_dev 2*u.
C1_SelfCancel ==
    \A c \in ObjIds :
        LET m == objs[c].made
            x == m[2]
        IN  (m[1] \in {"sub", "add"} /\ m[2] = m[3]
                /\ objs[x].cls = "Variable")
            => /\ PeekDerivatives(c) = (x :> (IF m[1] = "sub" THEN 0 ELSE 2))
               /\ PeekStdDev(c) = (IF m[1] = "sub" THEN Fin(0)
                                   ELSE Twice(objs[x].std_dev))

\* C2: reading a.derivatives or a.std_dev never changes what any object
\* that existed before the read expands to, nor its std_dev.
C2_ReadOrder ==
    [][last'.op \in {"derivatives", "std_dev"}
        => \A c \in ObjIds :
              /\ derivatives(draft', objs', lcs', c).ret = PeekDerivatives(c)
              /\ std_dev(draft', objs', lcs', c).ret = PeekStdDev(c)]_vars

\* C4: a second expand() on the same LinearCombination object yields the
\* same map as the first, and expand() on an expanded combination returns
\* it or an equal copy, leaves it unchanged and does not raise.
C4_Idempotent ==
    [][/\ (last.op = "expand" /\ last'.op = "expand"
            /\ last'.self = last.self /\ last.err = "")
          => (last'.err = "" /\ last'.map = last.map)
       /\ (last'.op = "expand" /\ is_expanded(lcs[last'.self]))
          => /\ last'.err = ""
             /\ last'.map = lcs[last'.self].dict
             /\ lcs'[last'.self] = lcs[last'.self]]_vars

\* The sum over every path from combination l down to Variable v of the
\* product of the factors along the path, by recursion on the structure.
RECURSIVE PathSum(_, _, _)
PathSum(H, l, v) ==
    IF H[l].rep = "dict"
    THEN IF v \in DOMAIN H[l].dict THEN H[l].dict[v] ELSE 0
    ELSE LET terms == H[l].list
             RECURSIVE over(_)
             over(i) == IF i = 0 THEN 0
                        ELSE over(i - 1) + terms[i][1] * PathSum(H, terms[i][2], v)
         IN  over(Len(terms))

\* Some path leads from combination l down to Variable v
RECURSIVE Reaches(_, _, _)
Reaches(H, l, v) ==
    IF H[l].rep = "dict"
    THEN v \in DOMAIN H[l].dict
    ELSE \E i \in 1..Len(H[l].list) : Reaches(H, H[l].list[i][2], v)

PathSums(H, O, l) ==
    [v \in {w \in 1..Len(O) : Reaches(H, l, w)} |-> PathSum(H, l, v)]

\* C5: expand() (called directly, or through derivatives) returns the map of
\* the path sums of the combination it is called on: a Variable reached by
\* several paths gets the sum of the path products, a Variable reached by
\* none is absent.
C5_PathSums ==
    [][/\ last'.op = "expand"
          => /\ last'.err = ""
             /\ last'.map = PathSums(lcs, objs, last'.self)
       /\ last'.op = "derivatives"
          => /\ last'.err = ""
             /\ last'.map = PathSums(lcs, objs, objs[last'.self].linear_part)
      ]_vars

\* expand() was called on the linear part of a difference c = a - a: the
\* Variable is reached directly and through the nested combination of -a,
\* and the two paths cancel
C5_Witness ==
    /\ last.op = "expand"
    /\ last.err = ""
    /\ \E c \in ObjIds :
          /\ last.self = objs[c].linear_part
          /\ objs[c].made[1] = "sub"
          /\ objs[c].made[2] = objs[c].made[3]
    /\ \E v \in DOMAIN last.map : last.map[v] = 0

\* p * da + q * db for two coefficient maps
Combine(p, da, q, db) ==
    [v \in DOMAIN da \cup DOMAIN db |->
        (IF v \in DOMAIN da THEN p * da[v] ELSE 0)
        + (IF v \in DOMAIN db THEN q * db[v] ELSE 0)]

\* C10: a product c = a * b has nominal value a.n * b.n and expands to
\* b.n * (coefficients of a) + a.n * (coefficients of b); for independent
\* Variables x, y the std_dev is sqrt((ux*y.n)^2 + (uy*x.n)^2) and for
\* a and b the same Variable x the coefficient of x is 2 * x.n.
C10_Product ==
    \A c \in ObjIds :
        LET a == objs[c].made[2]
            b == objs[c].made[3]
        IN  objs[c].made[1] = "mul"
            => /\ objs[c].nominal_value
                    = objs[a].nominal_value * objs[b].nominal_value
               /\ PeekDerivatives(c)
                    = Combine(objs[b].nominal_value, PeekDerivatives(a),
                              objs[a].nominal_value, PeekDerivatives(b))
               /\ (objs[a].cls = "Variable" /\ objs[b].cls = "Variable"
                        /\ a # b)
                  => PeekStdDev(c)
                        = FSqrt(FAdd(
                            FSq(FMul(objs[b].nominal_value, objs[a].std_dev)),
                            FSq(FMul(objs[a].nominal_value, objs[b].std_dev))))
               /\ (objs[a].cls = "Variable" /\ a = b)
                  => PeekDerivatives(c) = (a :> 2 * objs[a].nominal_value)

\* A negative finite float
NegativeFinite(f) == f.k = "fin" /\ f.v < 0

\* C6: Variable(value, s) with a negative finite s raises NegativeStdDev, and
\* assigning such an s to the std_dev of a Variable raises it too and leaves
\* the Variable as it was.
C6_Rejected ==
    [][/\ (last'.op = "Variable" /\ NegativeFinite(last'.f))
          => (last'.err = "NegativeStdDev" /\ objs' = objs)
       /\ (last'.op = "std_dev.setter" /\ NegativeFinite(last'.f))
          => (last'.err = "NegativeStdDev" /\ objs' = objs)]_vars

\* A standard deviation the data model permits: >= 0, +inf included
Permitted(f) == (f.k = "fin" /\ f.v >= 0) \/ f = PosInf

\* C7: every existing Variable has a permitted std_dev
C7_NonNegative ==
    \A x \in ObjIds : objs[x].cls = "Variable" => Permitted(objs[x].std_dev)

AbsTimes(c, sd) ==
    CASE sd.k = "fin" -> Fin(Abs(c) * sd.v)
      [] sd.k = "inf" -> IF c = 0 THEN NaN ELSE PosInf
      [] OTHER -> NaN

\* The square of a float that is a root
Squared(f) ==
    CASE f.k = "fin" -> Fin(f.v * f.v)
      [] f.k = "sqrt" -> Fin(f.v)
      [] OTHER -> f

RECURSIVE SumOfSquares(_, _)
SumOfSquares(ec, S) ==
    IF S = {} THEN Fin(0)
    ELSE LET v == CHOOSE w \in S : TRUE
         IN  FAdd(FSq(ec[v]), SumOfSquares(ec, S \ {v}))

\* What a.error_components() would return in this state
PeekErrorComponents(a) == error_components(draft, objs, lcs, a).ret

\* C9: error_components() maps every Variable of the expanded linear part to
\* |coefficient| * std_dev, and to exactly 0 when that std_dev is exactly 0;
\* the std_dev of a derived value is the root of the sum of the squared
\* components.
C9_Components ==
    /\ last.op = "error_components"
       => /\ last.err = ""
          /\ DOMAIN last.ec = DOMAIN PeekDerivatives(last.self)
          /\ \A v \in DOMAIN last.ec :
                last.ec[v] = IF objs[v].std_dev = Fin(0) THEN Fin(0)
                             ELSE AbsTimes(PeekDerivatives(last.self)[v],
                                           objs[v].std_dev)
    /\ (last.op = "std_dev" /\ objs[last.self].cls = "AffineScalarFunc")
       => /\ last.err = ""
          /\ Squared(last.f)
                = SumOfSquares(PeekErrorComponents(last.self),
                               DOMAIN PeekErrorComponents(last.self))

\* error_components() returned a positive component for a Variable with a
\* negative coefficient
C9_Witness ==
    /\ last.op = "error_components"
    /\ \E v \in DOMAIN last.ec :
          /\ PeekDerivatives(last.self)[v] < 0
          /\ last.ec[v].k = "fin"
          /\ last.ec[v].v > 0

\* The copies of Variable x: what copy.copy(x) or copy.deepcopy(x) returned
CopiesOf(x) == {y \in ObjIds : objs[y].made = <<"copy", x, 0>>}

\* 2 * u^2 for a standard deviation u
TwiceSquare(u) ==
    CASE u.k = "fin" -> Fin(2 * u.v * u.v)
      [] u.k = "inf" -> PosInf
      [] OTHER -> NaN

\* C11: copy() or deepcopy() of a Variable x returns a new Variable with the
\* same nominal value and std_dev, a different identity and the linear part
\* {copy: 1.0}; x - copy(x) depends on both Variables and its squared
\* std_dev is 2 * u^2.
C11_Copy ==
    /\ (last.op \in {"copy", "deepcopy"} /\ objs[last.self].cls = "Variable")
       => /\ last.err = ""
          /\ last.id # last.self
          /\ last.id \notin 1..(Len(objs) - 1)
          /\ objs[last.id].cls = "Variable"
          /\ objs[last.id].nominal_value = objs[last.self].nominal_value
          /\ objs[last.id].std_dev = objs[last.self].std_dev
          /\ lcs[objs[last.id].linear_part] = LCDict(last.id :> 1)
    /\ \A c \in ObjIds :
          LET m == objs[c].made
          IN  (m[1] = "sub" /\ m[3] \in CopiesOf(m[2]))
              => /\ DOMAIN PeekDerivatives(c) = {m[2], m[3]}
                 /\ Squared(PeekStdDev(c)) = TwiceSquare(objs[m[2]].std_dev)

\* The std_dev of x - copy(x) was read, x of std_dev 1
C11_Witness ==
    /\ last.op = "std_dev"
    /\ objs[last.self].made[1] = "sub"
    /\ objs[last.self].made[3] \in CopiesOf(objs[last.self].made[2])
    /\ objs[objs[last.self].made[2]].std_dev = Fin(1)
    /\ last.f = [k |-> "sqrt", v |-> 2]

\* The LinearCombination objects reached from combination l
RECURSIVE LCsOf(_, _)
LCsOf(H, l) ==
    {l} \cup UNION {LCsOf(H, H[l].list[i][2]) : i \in 1..Len(H[l].list)}

\* b is a deep copy of the derived value a, or a of b
DeepCopyPair(a, b) ==
    /\ objs[a].cls = "AffineScalarFunc"
    /\ objs[b].cls = "AffineScalarFunc"
    /\ \/ objs[b].made = <<"deepcopy", a, 0>>
       \/ objs[a].made = <<"deepcopy", b, 0>>

\* C12: the deep copy of a derived value has the same nominal value and
\* its linear part shares no LinearCombination object with the original;
\* reading or expanding one of the two leaves the other's linear-part
\* representation and std_dev unchanged.
C12_DeepCopy ==
    [][/\ \A a \in 1..Len(objs'), b \in 1..Len(objs') :
             (objs'[b].made = <<"deepcopy", a, 0>>
                 /\ objs'[a].cls = "AffineScalarFunc")
             => /\ objs'[b].nominal_value = objs'[a].nominal_value
                /\ LCsOf(lcs', objs'[b].linear_part)
                      \cap LCsOf(lcs', objs'[a].linear_part) = {}
       /\ \A a \in ObjIds, b \in ObjIds :
             (/\ DeepCopyPair(a, b)
              /\ \/ last'.op \in {"derivatives", "std_dev"} /\ last'.self = a
                 \/ last'.op = "expand"
                       /\ last'.self \in LCsOf(lcs, objs[a].linear_part))
             => /\ objs'[b] = objs[b]
                /\ \A l \in LCsOf(lcs, objs[b].linear_part) :
                      lcs'[l] = lcs[l]
                /\ std_dev(draft', objs', lcs', b).ret = PeekStdDev(b)
      ]_vars

\* The derivatives of a deep copy were read while the original is still
\* not expanded
C12_Witness ==
    /\ last.op = "derivatives"
    /\ last.err = ""
    /\ last.map # EmptyDict
    /\ objs[last.self].made[1] = "deepcopy"
    /\ is_not_expanded(lcs[objs[objs[last.self].made[2]].linear_part])
    /\ LC_bool(lcs[objs[objs[last.self].made[2]].linear_part])

\* C13: an arithmetic operator applied to an ErrNum and a str or a list is
\* rejected with a TypeError and makes no object; the operand is never
\* turned into a number.
C13_Rejected ==
    (last.op \in {"add", "sub", "mul"} /\ last.arg.t \in {"str", "list"})
    => (last.err = "TypeError" /\ last.id = 0)

\* C19: an object made as n times p (by n * p, by adding multiples of p, or
\* by both) has n times the value of p and n times its uncertainty.
C19_Multiples ==
    \A o \in ObjIds :
        objs[o].mult[1] # 0
        => /\ objs[o].v = objs[o].mult[2] * objs[objs[o].mult[1]].v
           /\ USq(objs[o].u) = objs[o].mult[2] * objs[o].mult[2]
                                  * USq(objs[objs[o].mult[1]].u)

\* C14: correlated_values fails, and returns nothing, whenever the number
\* of nominal values differs from the number of rows of the covariance
\* matrix or the matrix is not square.
C14_Dimensions ==
    (/\ last.op = "correlated_values"
     /\ \/ Len(last.arg.nom_values) # Rows(last.arg.covariance_mat)
        \/ Rows(last.arg.covariance_mat) # Cols(last.arg.covariance_mat))
    => (last.err # "" /\ last.id = <<>> /\ objs = <<>>)

\* The product of two coefficients, a fraction
CoefTimes(a, b) ==
    IF a.n = 0 \/ b.n = 0 THEN Frac(0, 1)
    ELSE IF a.r2 /\ b.r2 THEN Frac(a.n * b.n, 2)
    ELSE IF ~a.r2 /\ ~b.r2 THEN Frac(a.n * b.n, 1)
    ELSE Frac(1, 0)

FracTimes(a, b) == Frac(a.n * b.n, a.d * b.d)

FracPlus(a, b) == Frac(a.n * b.d + b.n * a.d, a.d * b.d)

\* The sum over the latent Variables S of coefficient_A * coefficient_B *
\* std_dev^2
RECURSIVE CovarianceOver(_, _, _)
CovarianceOver(A, B, S) ==
    IF S = {} THEN Frac(0, 1)
    ELSE LET v == CHOOSE w \in S : TRUE
         IN  FracPlus(FracTimes(CoefTimes(lcs[objs[A].linear_part].dict[v],
                                          lcs[objs[B].linear_part].dict[v]),
                                objs[v].std_dev.v),
                      CovarianceOver(A, B, S \ {v}))

Covariance(A, B) ==
    CovarianceOver(A, B, DOMAIN lcs[objs[A].linear_part].dict
                            \cap DOMAIN lcs[objs[B].linear_part].dict)

\* No eigenvalue of the correlation matrix of M is negative: the
\* covariance of the correlated pair, if any, is at most the product of
\* the two standard deviations
NoClamp(M) ==
    \A i \in 1..Rows(M), j \in 1..Rows(M) :
        i # j => M[i][j] * M[i][j] <= M[i][i] * M[j][j]

\* C15: for as many nominal values as the square matrix C has rows, and no
\* eigenvalue clamped, correlated_values returns one value per nominal
\* value, each with its nominal value, and the covariance recomputed for
\* every pair (A, B) from the coefficients and the latent Variables'
\* std_dev is C[A][B].
C15_Covariance ==
    (/\ last.op = "correlated_values"
     /\ Len(last.arg.nom_values) = Rows(last.arg.covariance_mat)
     /\ Rows(last.arg.covariance_mat) = Cols(last.arg.covariance_mat)
     /\ NoClamp(last.arg.covariance_mat))
    => /\ last.err = ""
       /\ Len(last.id) = Len(last.arg.nom_values)
       /\ \A A \in 1..Len(last.id) :
             objs[last.id[A]].nominal_value = last.arg.nom_values[A]
       /\ \A A \in 1..Len(last.id), B \in 1..Len(last.id) :
             /\ Covariance(last.id[A], last.id[B]).d # 0
             /\ Covariance(last.id[A], last.id[B]).n
                   = last.arg.covariance_mat[A][B]
                        * Covariance(last.id[A], last.id[B]).d

\* Two correlated values of different variances and different nominal
\* values were built
C15_Witness ==
    /\ last.op = "correlated_values"
    /\ last.err = ""
    /\ Len(last.id) = 2
    /\ Len(last.arg.nom_values) = 2
    /\ last.arg.nom_values[1] # last.arg.nom_values[2]
    /\ last.arg.covariance_mat[1][1] # last.arg.covariance_mat[2][2]
    /\ last.arg.covariance_mat[2][1] # 0
    /\ NoClamp(last.arg.covariance_mat)

\* The accessors of a CurveFit object that C16 names
Accessors ==
    {"params", "stderr", "covariance", "r2", "predict_x", "predict_y", "iter"}

\* C16: an accessor of a CurveFit object raises NotFittedError exactly when
\* the latest fit() has not succeeded: when there has been no fit() yet, or
\* the latest fit() failed, also after an earlier one that succeeded.
C16_NotFitted ==
    last.op \in Accessors
    => (last.err = "NotFittedError" <=> objs[1].made # "converged")

\* C17: a fit() whose solver did not converge raises NotFittedError; it
\* does not return.
C17_Raises ==
    (last.op = "fit" /\ objs[1].made = "RuntimeError")
    => (last.err = "NotFittedError" /\ last.ret = NoneValue)

\* C18: LinearRegression(x, y, limits=l) on valid x and y stores l as a
\* 2-tuple when l is two numbers, and raises TypeError, making no object,
\* when l does not have exactly two elements.
C18_Limits ==
    (/\ last.op = "LinearRegression"
     /\ last.arg.limits # None
     /\ last.arg.limits.dtype = "number" /\ last.arg.limits.ndim = 1
     /\ last.arg.x.ndim = 1 /\ last.arg.y.ndim = 1
     /\ len(last.arg.x) = len(last.arg.y))
    => IF size(last.arg.limits) = 2
       THEN /\ last.err = ""
            /\ objs[1].limits = last.arg.limits.rows[1]
            /\ Len(objs[1].limits) = 2
       ELSE last.err = "TypeError" /\ objs = <<>>

\* r is x at two significant figures: a multiple of the unit of the second
\* significant digit of x, at most half a unit away from x
TwoFigures(x, r) ==
    LET unit == Pow10(floor_log10(x) + 2)
    IN r % unit = 0 /\ 2 * Abs(x - r) <= unit

\* The uncertainty is absent or zero
NoUncertainty(u_x) ==
    \/ u_x.t = "None"
    \/ u_x.t \in {"number", "list"} /\ \A i \in 1..Len(u_x.v) : u_x.v[i] = 0

\* C20: round_to_2(x), and round_to_2(x, u_x) with u_x zero, returns x at
\* two significant figures for a nonzero number and 0 for 0; for a list it
\* returns a list of the same length, each element rounded this way, zero
\* elements being left 0.
C20_TwoFigures ==
    (/\ last.op = "round_to_2"
     /\ last.arg.x.t \in {"number", "list"}
     /\ NoUncertainty(last.arg.u_x)
     /\ last.arg.u_x.t = "list" => (/\ last.arg.x.t = "list"
                                    /\ Len(last.arg.u_x.v) = Len(last.arg.x.v)))
    => /\ last.err = ""
       /\ last.ret.t = last.arg.x.t
       /\ Len(last.ret.v) = Len(last.arg.x.v)
       /\ \A i \in 1..Len(last.arg.x.v) :
             IF last.arg.x.v[i] = 0 THEN last.ret.v[i] = 0
             ELSE TwoFigures(last.arg.x.v[i], last.ret.v[i])

\* A list holding a zero, a tie (12.5) and 124 has been rounded: to 0, 12
\* and 120
C20_Witness ==
    /\ last.op = "round_to_2"
    /\ last.arg.x = Arg("list", <<12500, 0>>)
    /\ last.arg.u_x = Arg("list", <<0, 0>>)
    /\ last.ret.v = <<12000, 0>>
    /\ objs = <<last.ret.v>>

\* C21: MeanUncertainty(data) raises ValueError when data has fewer than
\* two elements; with two elements or more it makes an object holding mean
\* and stderr when every element is an int or a float, and raises TypeError
\* when no element is a number.
C21_Mean ==
    last.op = "MeanUncertainty"
    => IF Len(last.arg) < 2 THEN last.err = "ValueError" /\ objs = <<>>
       ELSE IF \A i \in 1..Len(last.arg) : last.arg[i].t \in {"int", "float"}
       THEN /\ last.err = ""
            /\ Len(objs) = 1
            /\ objs[1].mean = np_mean([i \in 1..Len(last.arg) |->
                                          last.arg[i].v])
       ELSE IF \A i \in 1..Len(last.arg) : last.arg[i].t = "str"
       THEN last.err = "TypeError" /\ objs = <<>>
       ELSE TRUE

\* C22: p.relative is +infinity, and no exception, when the value of p is
\* 0; otherwise it is the non-negative quotient |uncertainty| / |value|.
C22_Relative ==
    last.op = "relative"
    => /\ last.err = ""
       /\ IF objs[last.self].v = 0 THEN last.f = PosInf
          ELSE /\ last.f.k = "frac"
               /\ last.f.v.d # 0
               /\ last.f.v.n * last.f.v.d >= 0
               /\ Abs(last.f.v.n) * Abs(objs[last.self].v)
                     = Abs(objs[last.self].u.v) * Abs(last.f.v.d)

\* The relative error of an object of negative value and positive
\* uncertainty has been read
C22_Witness ==
    /\ last.op = "relative"
    /\ objs[last.self].v < 0
    /\ objs[last.self].u.v > 0
    /\ last.f.v.n > 0

\* Expanding the combination l of heap H meets a linear_combo that is
\* neither a list nor a dict: its own, or that of a sub-expression
RECURSIVE BadReached(_, _)
BadReached(H, l) ==
    \/ ~is_expanded(H[l]) /\ ~is_not_expanded(H[l])
    \/ /\ is_not_expanded(H[l])
       /\ \E i \in 1..Len(H[l].list) : BadReached(H, H[l].list[i][2])

\* C23: a call of expand(), or a read of derivatives, that meets a
\* linear_combo that is neither a list nor a dict raises an error.
C23_Malformed ==
    [][/\ (last'.op = "expand" /\ BadReached(lcs, last'.self))
           => last'.err # ""
       /\ (last'.op = "derivatives"
             /\ BadReached(lcs, objs[last'.self].linear_part))
           => last'.err # ""]_vars

\* The number of loop steps that expanding combination l of heap H takes
RECURSIVE Weight(_, _)
RECURSIVE WeightOf(_, _, _)
Weight(H, l) ==
    IF is_not_expanded(H[l]) THEN 1 + WeightOf(H, H[l].list, Len(H[l].list))
    ELSE 1

WeightOf(H, terms, i) ==
    IF i = 0 THEN 0 ELSE Weight(H, terms[i][2]) + WeightOf(H, terms, i - 1)

\* What is left to do for the thread of frame f, lp being the linear part
\* it is about to expand: the terms of the work-list, and the term popped
\* and not yet dealt with
Variant(H, f, lp) ==
    LET l == IF f.pc = "start" THEN lp ELSE f.self
    IN IF ~is_not_expanded(H[l]) THEN 0
       ELSE WeightOf(H, H[l].list, Len(H[l].list))
            + (IF f.pc = "body" THEN Weight(H, f.item[2]) ELSE 0)

\* C24: expand() on a combination over a finite acyclic structure
\* terminates: no step of the loop increases what is left of the work-list,
\* each passage through the body decreases it, and the call returns.
C24_Terminates ==
    /\ [][/\ Variant(lcs', objs'[1], last'.linear_part)
                <= Variant(lcs, objs[1], last.linear_part)
          /\ objs[1].pc = "body"
                => Variant(lcs', objs'[1], last'.linear_part)
                      < Variant(lcs, objs[1], last.linear_part)]_vars
    /\ <>(objs[1].pc = "done")

\* expand() has returned after a passage through a nested combination:
\* a coefficient is the product of two factors
C24_Witness ==
    /\ draft \in Drafts
    /\ Len(objs) = 1
    /\ objs[1].pc = "done"
    /\ objs[1].popped >= 3
    /\ \E v \in DOMAIN objs[1].ret : objs[1].ret[v] >= 4

\* Both threads went through the loop of expand() on the shared
\* combination, each popped terms and accumulated coefficients, and both
\* have returned
BothExpanded ==
    /\ Len(objs) = 2
    /\ \A t \in 1..2 : /\ objs[t].pc = "done"
                       /\ objs[t].popped >= 1
                       /\ DOMAIN objs[t].ret # {}

\* C25: when two threads read the derivatives of a value for the first
\* time and both go through the loop of expand() on its combination, the
\* terms are split between them: a thread, or the linear part left in the
\* value, ends with a map that is not the map expand() gives alone.
C25_Race ==
    BothExpanded
    => \/ \E t \in 1..2 : objs[t].ret # last.single
       \/ lcs[last.linear_part].dict # last.single

\* Both threads have returned after each popped and accumulated terms, and
\* the linear part left in the value is not the map of expand() alone
C25_Witness ==
    /\ BothExpanded
    /\ lcs[last.linear_part].dict # last.single
    /\ objs[1].ret # objs[2].ret

\* C26: a dump helper (PICKLE.dump, JSON.dump, TXT.dump, hdf5_dump) that
\* raised ValueError or TypeError has left the file system as it was: the
\* file is not created, truncated or partly written.
C26_Unchanged ==
    (draft = "file_io" /\ last.raised # "") => objs = last.before

\* The assignment x.std_dev = sd has just returned
Assigned(call) ==
    call.op = "std_dev.setter" /\ call.err = ""

\* The standard deviation of a with the coefficients D, x having the
\* standard deviation sd and every other Variable the one of O
StdDevWith(O, D, x, sd) ==
    LET ec == [v \in DOMAIN D |->
                  component(IF v = x THEN sd ELSE O[v].std_dev, D[v])]
    IN  [ec |-> ec, std_dev |-> FSqrt(sum_sq(ec, DOMAIN ec))]

\* C27: when x.std_dev = sd returns, what the next read of
\* error_components() and of std_dev gives for every derived value is
\* computed with sd for x, and the coefficient map of the value is the one
\* it had, whether its linear part had been expanded by a read or not.
C27_NotCached ==
    [][Assigned(last') =>
          \A a \in Derived :
              LET D == PeekDerivatives(a)
                  w == StdDevWith(objs, D, last'.self, last'.f)
              IN  /\ derivatives(draft, objs', lcs', a).ret = D
                  /\ error_components(draft, objs', lcs', a).ret = w.ec
                  /\ std_dev(draft, objs', lcs', a).ret = w.std_dev]_vars

\* x.std_dev = inf has returned; a derived value whose linear part a read
\* has expanded depends on x, and its error component for x is now inf
C27_Witness ==
    /\ Assigned(last)
    /\ \E a \in Derived :
          /\ is_expanded(lcs[objs[a].linear_part])
          /\ last.self \in DOMAIN lcs[objs[a].linear_part].dict
          /\ lcs[objs[a].linear_part].dict[last.self] # 0
          /\ PeekErrorComponents(a)[last.self] = last.f
          /\ last.f = PosInf

\* The handlers of class cls of the logger named name
HandlersOf(name, cls) ==
    {i \in 1..Len(objs[name].handlers) : objs[name].handlers[i].cls = cls}

\* C28: after any calls of LoggerFactory.get_logger, a logger has at most
\* one console handler and at most one file handler; a call on a logger that
\* has a handler adds none and changes no handler, whatever its log_file and
\* console, and sets the level of the logger to its own.
C28_Handlers ==
    /\ [](\A name \in Names : /\ Cardinality(HandlersOf(name, "StreamHandler")) <= 1
                              /\ Cardinality(HandlersOf(name, "FileHandler")) <= 1)
    /\ [][\A name \in Names :
             /\ objs[name].handlers # <<>>
                   => objs'[name].handlers = objs[name].handlers
             /\ name = last'.name => objs'[name].level = last'.level
             /\ name # last'.name => objs'[name] = objs[name]]_vars

\* A logger with a console handler and a file handler was asked for again,
\* with another log_file and another level: none was added, the handlers
\* are as they were and the logger has the level of the latest call
C28_Witness ==
    /\ last.name \in Names
    /\ last.added = 0
    /\ last.console
    /\ Len(objs[last.name].handlers) = 2
    /\ last.log_file # NoneValue
    /\ last.log_file # objs[last.name].handlers[2].file
    /\ objs[last.name].handlers[1].level # last.level
    /\ objs[last.name].level = last.level

\* C29: c - p for a plain number c and an ErrNum p of ErrNum.py has the
\* value c - p.v and the uncertainty p.u.
C29_Reflected ==
    (draft = "ErrNum" /\ last.op = "rsub" /\ last.err = "")
        => /\ objs[last.id].v = last.arg.v - objs[last.self].v
           /\ objs[last.id].u = objs[last.self].u

\* C30: in the ErrNum of ErrNum2.py, x - x has the value 0 and the
\* uncertainty 0.
C30_SelfDifference ==
    (/\ draft = "ErrNum2"
     /\ last.op = "sub"
     /\ last.err = ""
     /\ last.arg = Operand("ErrNum", last.self, <<>>))
        => /\ objs[last.id].v = 0
           /\ objs[last.id].u = URoot(0)

=============================================================================
